---------------------------- MODULE Spec2Model ----------------------------
(***************************************************************************)
(* Model of the listing pipeline of home-hunter: the deduplicator          *)
(* (src/dedup/deduplicator.py), the reconciler and the listings table      *)
(* (src/db.py), the market analyzer (src/market_analyzer.py) and the batch *)
(* run that strings them together (src/main.py).                           *)
(*                                                                         *)
(* Conventions.  An Optional[T] value is None == <<>> or Some(v) == <<v>>. *)
(* A Python str that the code takes apart is a sequence of one-character   *)
(* strings.  Coordinates are integers in units of 0.00001 degree, so the   *)
(* 0.0001 degree threshold of _is_geo_match is 10 units.  A median is kept *)
(* doubled (statistics.median of an even-sized list is a half-integer).    *)
(***************************************************************************)
EXTENDS Integers, Sequences, FiniteSets, TLC

VARIABLES
    pc,               \* position of the driver of the specification at hand
    raw_listings,     \* main.run: raw_listings, the fetched listings (process()
                      \* sets normalized_address on them)
    unique_listings,  \* main.run: unique_listings = Deduplicator.process(raw_listings)
    merged_from,      \* for each element of unique_listings, the indices of the
                      \* raw listings that process() put into its merge group
    rerun_listings,   \* Deduplicator.process(unique_listings), a second pass
    rerun_from,       \* the merge groups of the second pass
    all_listings,     \* analyze_market: all_listings, the batch under analysis
    market_report,    \* main.run: market_report = analyze_market(...)
    db,               \* the rows of the listings table
    now,              \* datetime.now() as the running pipeline reads it
    next_uuid,        \* the next value of str(uuid.uuid4())[:16]
    runs,             \* the number of pipeline runs started
    db_at_start,      \* the rows of the listings table when the run started
    new_listings,     \* main.run: new_listings, as indices into unique_listings
    updated_listings, \* main.run: updated_listings, as indices into unique_listings
    area_stats,       \* main.run: area_stats = db.compute_area_stats()
    needs_scoring,    \* main.run: needs_scoring, as indices into unique_listings
    again,            \* the result of a second reconcile() call
    age_filter,       \* one call of main._passes_age_filter: its arguments and,
                      \* once it has returned, its result
    sub_score,        \* one call of a sub-scoring function of scoring/criteria.py:
                      \* its arguments and, once it has returned, its name and
                      \* its result
    addresses,        \* one address as a source spells it and a second spelling
                      \* of it, with the fingerprints of the two once computed
    scorer,           \* main.run: scorer, the ScoringEngine (whether it has a
                      \* client), with the position of the scoring loop and
                      \* the last call of scorer.score
    search_requests,  \* the rows of the search_requests table, by id: status
                      \* and run_status
    threads,          \* web/app.py: the background threads started by
                      \* admin_approve and admin_rerun, each with its position
                      \* in _run_pipeline
    _pipeline_semaphore, \* web/app.py: the counter of _pipeline_semaphore
    bulk_run,         \* one call of run_all_approved_users: the approved
                      \* users it read and the position of its loop
    http_response      \* web/app.py: the last HTTP response of a route

dedupVars == <<raw_listings, unique_listings, merged_from, rerun_listings, rerun_from>>

marketVars == <<all_listings, market_report>>

storeVars == <<db, now, next_uuid, runs, db_at_start>>

runVars == <<new_listings, updated_listings, area_stats, needs_scoring, again>>

callVars == <<age_filter, scorer, sub_score, addresses>>

webVars == <<search_requests, threads, _pipeline_semaphore, bulk_run, http_response>>

vars == <<pc, dedupVars, marketVars, storeVars, runVars, callVars, webVars>>

---------------------------------------------------------------------------
(* Optional values and small helpers                                       *)

None == <<>>

Some(v) == <<v>>

IsNone(x) == x = None

Val(x) == x[1]

Range(f) == {f[i] : i \in DOMAIN f}

Indices(n) == [i \in 1..n |-> i]

Min(a, b) == IF a <= b THEN a ELSE b

Max(a, b) == IF a >= b THEN a ELSE b

Abs(a) == IF a < 0 THEN -a ELSE a

\* the sequence s, enumerated: TLC keeps [i \in 1..n |-> e] unevaluated and
\* computes e again at every application, a concatenation is computed once
Eager(s) == s \o <<>>

RECURSIVE Flatten(_)
Flatten(ss) == IF ss = <<>> THEN <<>> ELSE Head(ss) \o Flatten(Tail(ss))

---------------------------------------------------------------------------
(* Strings as character sequences: str.lower, str.upper, str.strip,        *)
(* str.split, " ".join                                                     *)

STREET_ABBREVS ==
    (<<"s", "t", "r", "e", "e", "t">> :> <<"s", "t">>) @@
    (<<"a", "v", "e", "n", "u", "e">> :> <<"a", "v", "e">>) @@
    (<<"b", "o", "u", "l", "e", "v", "a", "r", "d">> :> <<"b", "l", "v", "d">>) @@
    (<<"d", "r", "i", "v", "e">> :> <<"d", "r">>) @@
    (<<"l", "a", "n", "e">> :> <<"l", "n">>) @@
    (<<"c", "o", "u", "r", "t">> :> <<"c", "t">>) @@
    (<<"c", "i", "r", "c", "l", "e">> :> <<"c", "i", "r">>) @@
    (<<"p", "l", "a", "c", "e">> :> <<"p", "l">>) @@
    (<<"r", "o", "a", "d">> :> <<"r", "d">>) @@
    (<<"t", "e", "r", "r", "a", "c", "e">> :> <<"t", "e", "r">>) @@
    (<<"w", "a", "y">> :> <<"w", "y">>) @@
    (<<"t", "r", "a", "i", "l">> :> <<"t", "r", "l">>) @@
    (<<"p", "a", "r", "k", "w", "a", "y">> :> <<"p", "k", "w", "y">>) @@
    (<<"h", "i", "g", "h", "w", "a", "y">> :> <<"h", "w", "y">>) @@
    (<<"n", "o", "r", "t", "h">> :> <<"n">>) @@
    (<<"s", "o", "u", "t", "h">> :> <<"s">>) @@
    (<<"e", "a", "s", "t">> :> <<"e">>) @@
    (<<"w", "e", "s", "t">> :> <<"w">>) @@
    (<<"n", "o", "r", "t", "h", "e", "a", "s", "t">> :> <<"n", "e">>) @@
    (<<"n", "o", "r", "t", "h", "w", "e", "s", "t">> :> <<"n", "w">>) @@
    (<<"s", "o", "u", "t", "h", "e", "a", "s", "t">> :> <<"s", "e">>) @@
    (<<"s", "o", "u", "t", "h", "w", "e", "s", "t">> :> <<"s", "w">>) @@
    (<<"a", "p", "a", "r", "t", "m", "e", "n", "t">> :> <<"a", "p", "t">>) @@
    (<<"u", "n", "i", "t">> :> <<"u", "n", "i", "t">>) @@
    (<<"s", "u", "i", "t", "e">> :> <<"s", "t", "e">>) @@
    (<<"#">> :> <<"a", "p", "t">>)

LowerCaseOf ==
    ("A" :> "a") @@ ("B" :> "b") @@ ("C" :> "c") @@ ("D" :> "d") @@ ("E" :> "e") @@ ("F" :> "f") @@
    ("G" :> "g") @@ ("H" :> "h") @@ ("I" :> "i") @@ ("J" :> "j") @@ ("K" :> "k") @@ ("L" :> "l") @@
    ("M" :> "m") @@ ("N" :> "n") @@ ("O" :> "o") @@ ("P" :> "p") @@ ("Q" :> "q") @@ ("R" :> "r") @@
    ("S" :> "s") @@ ("T" :> "t") @@ ("U" :> "u") @@ ("V" :> "v") @@ ("W" :> "w") @@ ("X" :> "x") @@
    ("Y" :> "y") @@ ("Z" :> "z")

UpperCaseOf == [c \in Range(LowerCaseOf) |-> CHOOSE u \in DOMAIN LowerCaseOf : LowerCaseOf[u] = c]

Lower(s) ==
    Eager([i \in 1..Len(s) |-> IF s[i] \in DOMAIN LowerCaseOf THEN LowerCaseOf[s[i]] ELSE s[i]])

Upper(s) ==
    Eager([i \in 1..Len(s) |-> IF s[i] \in DOMAIN UpperCaseOf THEN UpperCaseOf[s[i]] ELSE s[i]])

RECURSIVE LStrip(_)
LStrip(s) == IF s # <<>> /\ Head(s) = " " THEN LStrip(Tail(s)) ELSE s

RECURSIVE RStrip(_)
RStrip(s) == IF s # <<>> /\ s[Len(s)] = " " THEN RStrip(SubSeq(s, 1, Len(s) - 1)) ELSE s

Strip(s) == RStrip(LStrip(s))

\* the length of the first whitespace-free run of s
RECURSIVE TokenLen(_)
TokenLen(s) == IF s = <<>> \/ Head(s) = " " THEN 0 ELSE 1 + TokenLen(Tail(s))

RECURSIVE Split(_)
Split(s) ==
    IF s = <<>> THEN <<>>
    ELSE IF Head(s) = " " THEN Split(Tail(s))
    ELSE <<SubSeq(s, 1, TokenLen(s))>> \o Split(SubSeq(s, TokenLen(s) + 1, Len(s)))

RECURSIVE Join(_)
Join(tokens) ==
    IF tokens = <<>> THEN <<>>
    ELSE IF Len(tokens) = 1 THEN tokens[1]
    ELSE tokens[1] \o <<" ">> \o Join(Tail(tokens))

---------------------------------------------------------------------------
(* src/dedup/deduplicator.py                                               *)

\* re.sub(r"[.,']", "", addr)
RemovePunctuation(s) == SelectSeq(s, LAMBDA c : c \notin {".", ",", "'"})

\* the token as it is, whatever the table says
AbbrevTokenKept(token) == token

\* STREET_ABBREVS.get(token, token)
AbbrevToken(token) == IF token \in DOMAIN STREET_ABBREVS THEN STREET_ABBREVS[token] ELSE token

normalize_address(address, city, state, zip_code) ==
    LET addr   == RemovePunctuation(Strip(Lower(address)))
        tokens == Split(addr)
        normalized_tokens == Eager([i \in 1..Len(tokens) |-> AbbrevToken(tokens[i])])
        zip    == Strip(zip_code)
    IN  Join(normalized_tokens) \o <<"|">> \o Strip(Lower(city)) \o <<"|">>
            \o Strip(Upper(state)) \o <<"|">> \o SubSeq(zip, 1, Min(5, Len(zip)))

\* hashlib.sha256(...).hexdigest()[:16]: the digest is kept symbolic; two
\* different canonical strings are taken to have different digests
address_fingerprint(normalized_address) == <<"sha256/16", normalized_address>>

\* threshold_deg = 0.0001 of _is_geo_match, in units of 0.00001 degree
threshold_deg == 10

\* tolerance = 0.05 of _is_price_similar, in percent
tolerance_pct == 5

_is_geo_match(a, b) ==
    IF IsNone(a.latitude) \/ IsNone(a.longitude) \/ IsNone(b.latitude) \/ IsNone(b.longitude)
    THEN FALSE
    ELSE /\ Abs(Val(a.latitude) - Val(b.latitude)) < threshold_deg
         /\ Abs(Val(a.longitude) - Val(b.longitude)) < threshold_deg

\* ratio = min / max >= 1 - tolerance, with the division done on integers:
\* for max > 0 it is 100 * min >= 95 * max, for max < 0 the inequality turns
_is_price_similar(a, b) ==
    IF a.price = 0 \/ b.price = 0
    THEN FALSE
    ELSE LET lo == Min(a.price, b.price)
             hi == Max(a.price, b.price)
         IN  IF hi > 0
             THEN 100 * lo >= (100 - tolerance_pct) * hi
             ELSE 100 * lo <= (100 - tolerance_pct) * hi

_beds_baths_match(a, b) ==
    IF ~IsNone(a.bedrooms) /\ ~IsNone(b.bedrooms) /\ a.bedrooms # b.bedrooms
    THEN FALSE
    ELSE IF ~IsNone(a.bathrooms) /\ ~IsNone(b.bathrooms) /\ a.bathrooms # b.bathrooms
    THEN FALSE
    ELSE TRUE

\* all_source_urls.update(listing.source_urls)
DictUpdate(d, e) == [k \in DOMAIN d \cup DOMAIN e |-> IF k \in DOMAIN e THEN e[k] ELSE d[k]]

\* MergeSourceUrls without line 79: only the members' own non-empty URLs
RECURSIVE MergeSourceUrlsOwnOnly(_, _)
MergeSourceUrlsOwnOnly(all_source_urls, listings) ==
    IF listings = <<>> THEN all_source_urls
    ELSE LET listing == Head(listings)
             withOwn == IF listing.source_url # ""
                        THEN DictUpdate(all_source_urls, (listing.source :> listing.source_url))
                        ELSE all_source_urls
         IN  MergeSourceUrlsOwnOnly(withOwn, Tail(listings))

\* the loop of lines 77-82: the union of the members' source_urls, and each
\* member's own non-empty source_url under its source
RECURSIVE MergeSourceUrls(_, _)
MergeSourceUrls(all_source_urls, listings) ==
    IF listings = <<>> THEN all_source_urls
    ELSE LET listing == Head(listings)
             updated == DictUpdate(all_source_urls, listing.source_urls)
             withOwn == IF listing.source_url # ""
                        THEN DictUpdate(updated, (listing.source :> listing.source_url))
                        ELSE updated
         IN  MergeSourceUrls(withOwn, Tail(listings))

\* the fields of lines 87-108, each taken from the first member that has it
PreferNonNoneFields ==
    <<"sqft", "lot_sqft", "year_built", "hoa_monthly", "annual_tax", "has_garage",
      "has_basement", "has_pool", "has_fireplace", "school_rating", "photo_url">>

RECURSIVE FillUnset(_, _, _)
FillUnset(merged, listing, fields) ==
    IF fields = <<>> THEN merged
    ELSE LET f == Head(fields)
             m == IF IsNone(merged[f]) /\ ~IsNone(listing[f])
                  THEN [merged EXCEPT ![f] = listing[f]]
                  ELSE merged
         IN  FillUnset(m, listing, Tail(fields))

\* a Python int used as a condition: set and not zero
Truthy(x) == ~IsNone(x) /\ Val(x) # 0

\* lines 110-114
MergeEstimates(merged, listing) ==
    LET m1 == IF listing.source = "redfin" /\ Truthy(listing.redfin_estimate)
              THEN [merged EXCEPT !.redfin_estimate = listing.redfin_estimate]
              ELSE merged
    IN  IF listing.source = "zillow" /\ Truthy(listing.zestimate)
        THEN [m1 EXCEPT !.zestimate = listing.zestimate]
        ELSE m1

\* lines 116-118
MergePriceHistory(merged, listing) ==
    IF Len(listing.price_history) > Len(merged.price_history)
    THEN [merged EXCEPT !.price_history = listing.price_history]
    ELSE merged

\* lines 120-123
MergeCoordinates(merged, listing) ==
    IF IsNone(merged.latitude) /\ ~IsNone(listing.latitude)
    THEN [merged EXCEPT !.latitude = listing.latitude, !.longitude = listing.longitude]
    ELSE merged

\* the body of the loop over listings[1:], lines 85-123
RECURSIVE MergeRest(_, _)
MergeRest(merged, rest) ==
    IF rest = <<>> THEN merged
    ELSE LET listing == Head(rest)
         IN  MergeRest(
                 MergeCoordinates(
                     MergePriceHistory(
                         MergeEstimates(
                             FillUnset(merged, listing, PreferNonNoneFields), listing),
                         listing),
                     listing),
                 Tail(rest))

_merge_listings(listings) ==
    IF Len(listings) = 1 THEN listings[1]
    ELSE LET base == [listings[1] EXCEPT !.source_urls = MergeSourceUrls(<<>>, listings)]
         IN  MergeRest(base, Tail(listings))

\* Phase 1 of process(), lines 134-137
NormalizeAll(listings) ==
    Eager([i \in 1..Len(listings) |->
        [listings[i] EXCEPT !.normalized_address =
            Some(normalize_address(listings[i].address, listings[i].city,
                                   listings[i].state, listings[i].zip_code))]])

FpOf(listing) == address_fingerprint(Val(listing.normalized_address))

\* Phase 2, lines 140-145: the dict groups, in insertion order, as a sequence
\* of [fp, members]; members are indices into listings
FingerprintGroups(listings) ==
    LET n     == Len(listings)
        heads == SelectSeq(Indices(n),
                     LAMBDA i : \A j \in 1..(i - 1) : FpOf(listings[j]) # FpOf(listings[i]))
    IN  Eager([k \in 1..Len(heads) |->
            [fp      |-> FpOf(listings[heads[k]]),
             members |-> SelectSeq(Indices(n),
                             LAMBDA i : FpOf(listings[i]) = FpOf(listings[heads[k]]))]])

\* line 148
Singletons(groups) ==
    LET one == SelectSeq(groups, LAMBDA g : Len(g.members) = 1)
    IN  Eager([k \in 1..Len(one) |-> one[k].members[1]])

\* line 149
MultiGroups(groups) == SelectSeq(groups, LAMBDA g : Len(g.members) > 1)

\* lines 164-169: singleton j joins the group kept under a's fingerprint
AddGeoMatch(st, fp_a, a, i, sj, j) ==
    LET mg1 == IF \E k \in 1..Len(st.multi_groups) : st.multi_groups[k].fp = fp_a
               THEN st.multi_groups
               ELSE Append(st.multi_groups, [fp |-> fp_a, members |-> <<a>>])
        mg2 == Eager([k \in 1..Len(mg1) |->
                   IF mg1[k].fp = fp_a
                   THEN [mg1[k] EXCEPT !.members = Append(@, sj)]
                   ELSE mg1[k]])
    IN  [geo_merged |-> st.geo_merged \cup {i, j}, multi_groups |-> mg2]

\* GeoInner without the test of lines 157-158
RECURSIVE GeoInnerNoSkip(_, _, _, _, _)
GeoInnerNoSkip(listings, singletons, i, j, st) ==
    IF j > Len(singletons) THEN st
    ELSE LET a  == listings[singletons[i]]
             b  == listings[singletons[j]]
         IN  IF _is_geo_match(a, b) /\ _is_price_similar(a, b) /\ _beds_baths_match(a, b)
             THEN GeoInnerNoSkip(listings, singletons, i, j + 1,
                                 AddGeoMatch(st, FpOf(a), singletons[i], i, singletons[j], j))
             ELSE GeoInnerNoSkip(listings, singletons, i, j + 1, st)

\* the inner loop, lines 156-170, from position j on
RECURSIVE GeoInner(_, _, _, _, _)
GeoInner(listings, singletons, i, j, st) ==
    IF j > Len(singletons) THEN st
    ELSE IF j \in st.geo_merged THEN GeoInner(listings, singletons, i, j + 1, st)
    ELSE LET a  == listings[singletons[i]]
             b  == listings[singletons[j]]
         IN  IF _is_geo_match(a, b) /\ _is_price_similar(a, b) /\ _beds_baths_match(a, b)
             THEN GeoInner(listings, singletons, i, j + 1,
                           AddGeoMatch(st, FpOf(a), singletons[i], i, singletons[j], j))
             ELSE GeoInner(listings, singletons, i, j + 1, st)

\* the outer loop, lines 153-155, from position i on
RECURSIVE GeoOuter(_, _, _, _)
GeoOuter(listings, singletons, i, st) ==
    IF i > Len(singletons) THEN st
    ELSE IF i \in st.geo_merged THEN GeoOuter(listings, singletons, i + 1, st)
    ELSE GeoOuter(listings, singletons, i + 1,
                  GeoInner(listings, singletons, i, i + 1, st))

\* Phases 2-4 of process() on normalized listings: the merge groups in the
\* order of the result, each a sequence of indices into listings
ProcessGroups(listings) ==
    LET groups     == FingerprintGroups(listings)
        singletons == Singletons(groups)
        st         == GeoOuter(listings, singletons, 1,
                               [geo_merged |-> {}, multi_groups |-> MultiGroups(groups)])
        seen_fps   == {st.multi_groups[k].fp : k \in 1..Len(st.multi_groups)}
        remaining  == SelectSeq(Indices(Len(singletons)),
                          LAMBDA i : /\ i \notin st.geo_merged
                                     /\ FpOf(listings[singletons[i]]) \notin seen_fps)
    IN  [k \in 1..Len(st.multi_groups) |-> st.multi_groups[k].members]
            \o [k \in 1..Len(remaining) |-> <<singletons[remaining[k]]>>]

\* Deduplicator.process, lines 131-192: the returned list, with it the merge
\* group of each of its elements, and the argument list, whose elements
\* Phase 1 has updated in place
ProcessResult(listings) ==
    LET normalized == NormalizeAll(listings)
        groups     == ProcessGroups(normalized)
    IN  [argument |-> normalized,
         listings |-> [k \in 1..Len(groups) |->
                         _merge_listings([m \in 1..Len(groups[k]) |-> normalized[groups[k][m]]])],
         groups   |-> groups]

Process(listings) == ProcessResult(listings).listings

---------------------------------------------------------------------------
(* Fetched listings (src/fetchers/redfin.py, src/fetchers/realtor.py)      *)

MainStreet == <<"1", " ", "M", "a", "i", "n", " ", "S", "t", "r", "e", "e", "t">>

MainSt == <<"1", " ", "m", "a", "i", "n", " ", "s", "t", ".">>

OakAve == <<"2", " ", "O", "a", "k", " ", "A", "v", "e">>

ElmRd == <<"3", " ", "E", "l", "m", " ", "R", "d">>

City == <<"C", "h", "i", "c", "a", "g", "o">>

State == <<"i", "l">>

Zip == <<"6", "0", "6", "1", "4", "-", "1", "2", "3", "4">>

UrlOf(source) == IF source = "redfin" THEN "https://www.redfin.com/home/1"
                 ELSE "https://www.realtor.com/realestateandhomes-detail/1"

\* a Listing as a fetcher builds it: source_urls holds the listing's own
\* source_url (which sanitize_url may have emptied) under its source, and
\* the fields a fetcher does not set keep the defaults of the model class
FetchedListing(source, address, source_url, latitude, longitude, price, bedrooms) ==
    [source |-> source, source_url |-> source_url,
     source_urls |-> (source :> source_url),
     address |-> address, city |-> City, state |-> State, zip_code |-> Zip,
     latitude |-> latitude, longitude |-> longitude,
     price |-> price, bedrooms |-> bedrooms, bathrooms |-> None,
     sqft |-> None, lot_sqft |-> None, year_built |-> None, hoa_monthly |-> None,
     annual_tax |-> None, has_garage |-> None, has_basement |-> None,
     has_pool |-> None, has_fireplace |-> None, school_rating |-> None,
     photo_url |-> None, redfin_estimate |-> None, zestimate |-> None,
     price_history |-> <<>>, normalized_address |-> None,
     id |-> None, days_on_market |-> None, status |-> "active",
     walk_score |-> None, transit_score |-> None, bike_score |-> None,
     flood_zone |-> None, flood_risk_rating |-> None, commute_minutes |-> None,
     deal_score |-> None, score_breakdown |-> None,
     first_seen |-> None, last_seen |-> None, is_new |-> TRUE]

\* the listing with the days on market the source reports
WithDom(listing, days_on_market) == [listing EXCEPT !.days_on_market = days_on_market]

\* the number of listings of a fetched batch
MaxListings == 3

ListsOver(universe) == UNION {[1..n -> universe] : n \in 0..MaxListings}

\* listings of two sources at two properties, one of them under two
\* spellings of its address, with and without a URL and coordinates
SourceUniverse ==
    {FetchedListing(source, address, IF hasUrl THEN UrlOf(source) ELSE "",
                    coord, coord, 100, None) :
        source \in {"redfin", "realtor"},
        address \in {MainStreet, MainSt, OakAve},
        hasUrl \in BOOLEAN,
        coord \in {None, Some(0)}}

\* listings of one source at three properties; each differs from the
\* reference listing (coordinates (0, 0), price 100, bedrooms unknown) in at
\* most one of coordinates, price and bedrooms
GeoUniverse ==
    UNION {
        {FetchedListing("redfin", address, UrlOf("redfin"), lat, Some(0), 100, None) :
            lat \in {Some(0), Some(9), Some(18), None}}
        \cup
        {FetchedListing("redfin", address, UrlOf("redfin"), Some(0), Some(0), price, None) :
            price \in {94, 95}}
        \cup
        {FetchedListing("redfin", address, UrlOf("redfin"), Some(0), Some(0), 100, Some(beds)) :
            beds \in {2, 3}}
        : address \in {MainStreet, OakAve, ElmRd}}

\* listings of two sources at two properties, with and without coordinates
RerunUniverse ==
    {FetchedListing(source, address, UrlOf(source), coord, coord, 100, None) :
        source \in {"redfin", "realtor"},
        address \in {MainStreet, MainSt, OakAve},
        coord \in {None, Some(0)}}

---------------------------------------------------------------------------
(* The deduplication stage of main.run, and a second pass over its result  *)

\* an empty listings table and no run under way
InitStore ==
    /\ db = {}
    /\ now = 0
    /\ next_uuid = 1
    /\ runs = 0
    /\ db_at_start = {}

\* the locals of main.run before the run sets them
InitRun ==
    /\ unique_listings = <<>>
    /\ merged_from = <<>>
    /\ rerun_listings = <<>>
    /\ rerun_from = <<>>
    /\ all_listings = <<>>
    /\ market_report = None
    /\ new_listings = <<>>
    /\ updated_listings = <<>>
    /\ area_stats = <<>>
    /\ needs_scoring = <<>>
    /\ again = None

\* neither the web application nor the monthly run is under way
InitWeb ==
    /\ search_requests = None
    /\ threads = None
    /\ _pipeline_semaphore = None
    /\ bulk_run = None
    /\ http_response = None

\* no call of a function studied on its own is under way
InitCalls ==
    /\ age_filter = None
    /\ scorer = None
    /\ sub_score = None
    /\ addresses = None
    /\ InitWeb

InitDedup(universe) ==
    /\ pc = "fetched"
    /\ raw_listings \in ListsOver(universe)
    /\ InitRun
    /\ InitCalls
    /\ InitStore

\* main.run line 143: unique_listings = deduplicator.process(raw_listings)
Dedup ==
    /\ pc = "fetched"
    /\ pc' = "deduped"
    /\ \E result \in {ProcessResult(raw_listings)} :
           /\ raw_listings' = result.argument
           /\ unique_listings' = result.listings
           /\ merged_from' = result.groups
    /\ UNCHANGED <<rerun_listings, rerun_from, marketVars, storeVars, runVars, callVars, webVars>>

\* process() called on the list it returned
Rerun ==
    /\ pc = "deduped"
    /\ pc' = "rerun"
    /\ \E result \in {ProcessResult(unique_listings)} :
           /\ unique_listings' = result.argument
           /\ rerun_listings' = result.listings
           /\ rerun_from' = result.groups
    /\ UNCHANGED <<raw_listings, merged_from, marketVars, storeVars, runVars, callVars, webVars>>

\* one pass over listings of two sources
SpecDedup == InitDedup(SourceUniverse) /\ [][Dedup]_vars

\* one pass over listings that differ in what the geo-matching reads
SpecGeo == InitDedup(GeoUniverse) /\ [][Dedup]_vars

\* two passes
SpecRerun == InitDedup(RerunUniverse) /\ [][Dedup \/ Rerun]_vars

---------------------------------------------------------------------------
(* src/market_analyzer.py                                                  *)
(*                                                                         *)
(* A median DOM is kept doubled (median2 = 2 * median).  A multiplier is   *)
(* kept in tenths (3.5 is 35).  A percentage count / total * 100 is kept   *)
(* as the pair (count, total) and compared in integers.  The mean, the     *)
(* percentiles, the description text and the timestamp of the report are   *)
(* not read by any stage and are left out of the record.                   *)

\* market_analyzer.py: class MarketCondition
VERY_HOT == "very_hot"

HOT == "hot"

NORMAL == "normal"

SLOW == "slow"

VERY_SLOW == "very_slow"

\* DOM_THRESHOLDS, in dict order; high = None stands for float("inf")
DOM_THRESHOLDS ==
    << [condition |-> VERY_HOT,  low |-> 0,  high |-> Some(14)],
       [condition |-> HOT,       low |-> 14, high |-> Some(30)],
       [condition |-> NORMAL,    low |-> 30, high |-> Some(60)],
       [condition |-> SLOW,      low |-> 60, high |-> Some(90)],
       [condition |-> VERY_SLOW, low |-> 90, high |-> None] >>

\* RECOMMENDED_SETTINGS (multiplier in tenths)
RECOMMENDED_SETTINGS ==
    (VERY_HOT  :> [max_dom_multiplier |-> 30, max_dom_absolute |-> 60])  @@
    (HOT       :> [max_dom_multiplier |-> 35, max_dom_absolute |-> 120]) @@
    (NORMAL    :> [max_dom_multiplier |-> 40, max_dom_absolute |-> 180]) @@
    (SLOW      :> [max_dom_multiplier |-> 50, max_dom_absolute |-> 270]) @@
    (VERY_SLOW :> [max_dom_multiplier |-> 60, max_dom_absolute |-> 365])

CONDITION_LABELS ==
    (VERY_HOT  :> "Very Hot (Strong Seller's Market)") @@
    (HOT       :> "Hot (Seller's Market)")             @@
    (NORMAL    :> "Normal (Balanced Market)")          @@
    (SLOW      :> "Slow (Buyer's Market)")             @@
    (VERY_SLOW :> "Very Slow (Stagnant Market)")

\* sorted(values)
Sorted(values) == SortSeq(values, LAMBDA a, b : a < b)

\* statistics.median(sorted_values), doubled; the list is not empty
Median2(sorted_values) ==
    LET n == Len(sorted_values)
    IN  IF n % 2 = 1
        THEN 2 * sorted_values[(n + 1) \div 2]
        ELSE sorted_values[n \div 2] + sorted_values[n \div 2 + 1]

\* variant: the upper bound of a band belongs to the band
InBandClosed(median2, band) ==
    /\ 2 * band.low <= median2
    /\ IsNone(band.high) \/ median2 <= 2 * Val(band.high)

\* low <= median_dom < high, on the doubled median
InBand(median2, band) ==
    /\ 2 * band.low <= median2
    /\ IsNone(band.high) \/ median2 < 2 * Val(band.high)

\* _classify_market: the first band that holds the median, else VERY_SLOW
_classify_market(median2) ==
    LET hits == {k \in DOMAIN DOM_THRESHOLDS : InBand(median2, DOM_THRESHOLDS[k])}
    IN  IF hits = {}
        THEN VERY_SLOW
        ELSE DOM_THRESHOLDS[CHOOSE k \in hits : \A h \in hits : k <= h].condition

\* [l.days_on_market for l in all_listings if l.days_on_market is not None]
DomValues(listings) ==
    LET known == SelectSeq(listings, LAMBDA l : ~IsNone(l.days_on_market))
    IN  Eager([k \in 1..Len(known) |-> Val(known[k].days_on_market)])

\* analyze_market lines 212-215: the listing counts as price-reduced
HasReduction(listing) ==
    /\ Len(listing.price_history) >= 2
    /\ listing.price_history[1].price > 0
    /\ listing.price < listing.price_history[1].price

CountReductions(listings) ==
    Cardinality({k \in DOMAIN listings : HasReduction(listings[k])})

\* variant: the settings are selected by the raw condition
RawCondition(condition, count, total) == condition

\* analyze_market lines 230-248: the condition that selects the settings.
\* pct_with_reductions = count / total * 100 is compared as
\* 100 * count against 30 * total and 10 * total.
AdjustedCondition(condition, count, total) ==
    IF 100 * count > 30 * total /\ condition \in {VERY_HOT, HOT}
    THEN NORMAL
    ELSE IF 100 * count < 10 * total /\ condition \in {SLOW, VERY_SLOW}
         THEN NORMAL
         ELSE condition

\* analyze_market lines 257-268: the per-ZIP breakdown.  stats_by_zip (the
\* parameter area_stats) maps a
\* zip code to a record with median_dom (Optional, whole days) and
\* sample_size.
ZipConditions(stats_by_zip) ==
    LET zips == {z \in DOMAIN stats_by_zip : ~IsNone(stats_by_zip[z].median_dom)}
    IN  [z \in zips |->
            LET zip_condition == _classify_market(2 * Val(stats_by_zip[z].median_dom))
            IN  [condition           |-> zip_condition,
                 condition_label     |-> CONDITION_LABELS[zip_condition],
                 median_dom          |-> Val(stats_by_zip[z].median_dom),
                 sample_size         |-> stats_by_zip[z].sample_size,
                 recommended_max_dom |-> RECOMMENDED_SETTINGS[zip_condition].max_dom_absolute]]

\* MarketReport() with the fields analyze_market sets on every path
DefaultReport(listings, new_batch) ==
    [condition                      |-> NORMAL,
     condition_label                |-> "",
     median_dom2                    |-> 0,
     listings_with_reductions       |-> 0,
     new_listing_count              |-> 0,
     total_listings_analyzed        |-> Len(listings),
     total_active                   |-> Len(listings),
     recommended_max_dom_multiplier |-> 40,
     recommended_max_dom_absolute   |-> 180,
     zip_conditions                 |-> <<>>]

analyze_market(listings, new_batch, stats_by_zip) ==
    LET report     == DefaultReport(listings, new_batch)
        dom_values == DomValues(listings)
    IN  IF dom_values = <<>>
        THEN \* lines 185-193: no DOM data, the defaults of NORMAL
             [report EXCEPT
                !.condition                      = NORMAL,
                !.condition_label                = CONDITION_LABELS[NORMAL],
                !.recommended_max_dom_multiplier = RECOMMENDED_SETTINGS[NORMAL].max_dom_multiplier,
                !.recommended_max_dom_absolute   = RECOMMENDED_SETTINGS[NORMAL].max_dom_absolute]
        ELSE LET median2   == Median2(Sorted(dom_values))
                 condition == _classify_market(median2)
                 count     == CountReductions(listings)
                 adjusted_condition == AdjustedCondition(condition, count, Len(listings))
                 settings  == RECOMMENDED_SETTINGS[adjusted_condition]
             IN  [report EXCEPT
                    !.median_dom2                    = median2,
                    !.condition                      = condition,
                    !.condition_label                = CONDITION_LABELS[condition],
                    !.listings_with_reductions       = count,
                    !.new_listing_count              = Len(new_batch),
                    !.recommended_max_dom_multiplier = settings.max_dom_multiplier,
                    !.recommended_max_dom_absolute   = settings.max_dom_absolute,
                    !.zip_conditions                 = ZipConditions(stats_by_zip)]

---------------------------------------------------------------------------
(* Batches handed to analyze_market                                        *)
(*                                                                         *)
(* analyze_market sorts the DOM values and counts the reduced listings, so *)
(* its report does not depend on the order of the batch; batches are built *)
(* in the order of MarketUniverse, one batch per multiset of listings.     *)

MaxBatch == 5

AskingPrice == 100

\* a listing as analyze_market reads it
MarketListing(days_on_market, original_price) ==
    [days_on_market |-> days_on_market,
     price          |-> AskingPrice,
     price_history  |-> IF original_price = AskingPrice
                        THEN <<>>
                        ELSE << [price |-> original_price, event |-> "Listed"],
                                [price |-> AskingPrice, event |-> "Price Change"] >>]

OriginalPrice == 120

\* days on market as the fetchers report them: unknown, or whole days
\* around the bounds of DOM_THRESHOLDS
MarketUniverse ==
    << MarketListing(None, AskingPrice),
       MarketListing(Some(10), AskingPrice),
       MarketListing(Some(10), OriginalPrice),
       MarketListing(Some(14), AskingPrice),
       MarketListing(Some(20), AskingPrice),
       MarketListing(Some(20), OriginalPrice),
       MarketListing(Some(29), AskingPrice),
       MarketListing(Some(30), AskingPrice),
       MarketListing(Some(40), AskingPrice),
       MarketListing(Some(50), AskingPrice),
       MarketListing(Some(60), AskingPrice),
       MarketListing(Some(60), OriginalPrice),
       MarketListing(Some(90), AskingPrice),
       MarketListing(Some(90), OriginalPrice) >>

InitMarket ==
    /\ pc = "batch"
    /\ raw_listings = <<>>
    /\ InitRun
    /\ InitCalls
    /\ InitStore

\* position of a listing in MarketUniverse
UniverseIndex(listing) == CHOOSE k \in DOMAIN MarketUniverse : MarketUniverse[k] = listing

\* one more listing joins the batch
AddToBatch ==
    /\ pc = "batch"
    /\ Len(all_listings) < MaxBatch
    /\ \E k \in DOMAIN MarketUniverse :
         /\ IF all_listings = <<>>
            THEN TRUE
            ELSE UniverseIndex(all_listings[Len(all_listings)]) <= k
         /\ all_listings' = Append(all_listings, MarketUniverse[k])
    /\ UNCHANGED <<pc, dedupVars, market_report, storeVars, runVars, callVars, webVars>>

\* main.run line 170 on the batch: no new listings, no area stats
AnalyzeMarket ==
    /\ pc = "batch"
    /\ pc' = "analyzed"
    /\ market_report' = Some(analyze_market(all_listings, <<>>, <<>>))
    /\ UNCHANGED <<dedupVars, all_listings, storeVars, runVars, callVars, webVars>>

SpecMarket == InitMarket /\ [][AddToBatch \/ AnalyzeMarket]_vars

---------------------------------------------------------------------------
(* src/db.py: the listings table                                           *)
(*                                                                         *)
(* The table is the set of its rows.  A row is a record with the fields of *)
(* a listing; a datetime is a number of clock ticks, str(uuid.uuid4())[:16]*)
(* is the next number of a counter (the value is taken to be unused).      *)

\* a dict used as a condition: set and not empty
TruthyDict(x) == ~IsNone(x) /\ Val(x) # <<>>

\* _listing_to_row: the column values of a listing; uuid and at are the
\* values of uuid4() and datetime.now() for an unset id and unset timestamps
_listing_to_row(listing, uuid, at) ==
    [listing EXCEPT
        !.id                 = IF IsNone(@) THEN Some(uuid) ELSE @,
        !.normalized_address = IF IsNone(@) THEN Some(<<>>) ELSE @,
        !.commute_minutes    = IF TruthyDict(@) THEN @ ELSE None,
        !.score_breakdown    = IF TruthyDict(@) THEN @ ELSE None,
        !.first_seen         = IF IsNone(@) THEN Some(at) ELSE @,
        !.last_seen          = IF IsNone(@) THEN Some(at) ELSE @]

\* _row_to_listing: the stored forms read back; a NULL column is None
_row_to_listing(row) ==
    [row EXCEPT
        !.commute_minutes = IF IsNone(@) THEN None ELSE @,
        !.score_breakdown = IF IsNone(@) THEN None ELSE @,
        !.is_new          = (@ = TRUE)]

\* SELECT * FROM listings WHERE normalized_address = ? AND source = ?
SelectByKey(rows, normalized_address, source) ==
    {r \in rows : r.normalized_address = normalized_address /\ r.source = source}

\* variant: INSERT without the ON CONFLICT clause and without the UNIQUE
\* constraint
InsertListing(rows, listing, uuid, at) ==
    rows \cup {_listing_to_row(listing, uuid, at)}

\* upsert_listing: INSERT ... ON CONFLICT(normalized_address, source)
\* DO UPDATE SET every column but id
upsert_listing(rows, listing, uuid, at) ==
    LET row      == _listing_to_row(listing, uuid, at)
        conflict == SelectByKey(rows, row.normalized_address, row.source)
    IN  IF conflict = {}
        THEN rows \cup {row}
        ELSE (rows \ conflict) \cup {[row EXCEPT !.id = r.id] : r \in conflict}

\* variant: the rows written are not committed and are lost
UpsertNotCommitted(rows, listings, uuid, at) == rows

\* upsert_listings
RECURSIVE upsert_listings(_, _, _, _)
upsert_listings(rows, listings, uuid, at) ==
    IF listings = <<>> THEN rows
    ELSE upsert_listings(upsert_listing(rows, Head(listings), uuid, at),
                         Tail(listings), uuid + 1, at)

\* the number of uuid4() values upsert_listings draws
UuidsDrawn(listings) == Cardinality({k \in DOMAIN listings : IsNone(listings[k].id)})

\* reconcile, the branch existing is None (lines 296-300)
ReconcileNew(listing, at, uuid) ==
    [listing EXCEPT
        !.first_seen = Some(at),
        !.last_seen  = Some(at),
        !.is_new     = TRUE,
        !.id         = Some(uuid)]

\* variant: of the three scores only walk_score is carried over
CarryWalkScoreAlone(listing, existing_listing) ==
    IF IsNone(listing.walk_score) /\ ~IsNone(existing_listing.walk_score)
    THEN [listing EXCEPT !.walk_score = existing_listing.walk_score]
    ELSE listing

\* lines 308-311
CarryWalkScore(listing, existing_listing) ==
    IF IsNone(listing.walk_score) /\ ~IsNone(existing_listing.walk_score)
    THEN [listing EXCEPT !.walk_score    = existing_listing.walk_score,
                         !.transit_score = existing_listing.transit_score,
                         !.bike_score    = existing_listing.bike_score]
    ELSE listing

\* lines 312-314
CarryFlood(listing, existing_listing) ==
    IF IsNone(listing.flood_risk_rating) /\ ~IsNone(existing_listing.flood_risk_rating)
    THEN [listing EXCEPT !.flood_zone        = existing_listing.flood_zone,
                         !.flood_risk_rating = existing_listing.flood_risk_rating]
    ELSE listing

\* lines 315-316
CarryCommute(listing, existing_listing) ==
    IF IsNone(listing.commute_minutes) /\ ~IsNone(existing_listing.commute_minutes)
    THEN [listing EXCEPT !.commute_minutes = existing_listing.commute_minutes]
    ELSE listing

\* lines 317-318
CarrySchool(listing, existing_listing) ==
    IF IsNone(listing.school_rating) /\ ~IsNone(existing_listing.school_rating)
    THEN [listing EXCEPT !.school_rating = existing_listing.school_rating]
    ELSE listing

\* variant: the score is never carried over
CarryNoScore(listing, existing_listing) == listing

\* lines 320-322
CarryScore(listing, existing_listing) ==
    IF ~IsNone(existing_listing.deal_score) /\ listing.price = existing_listing.price
    THEN [listing EXCEPT !.deal_score      = existing_listing.deal_score,
                         !.score_breakdown = existing_listing.score_breakdown]
    ELSE listing

\* variant: the identity of the stored row is not adopted
ReconcileFoundAsNew(listing, existing_listing, at) ==
    [listing EXCEPT
        !.first_seen = Some(at),
        !.last_seen  = Some(at),
        !.is_new     = TRUE]

\* variant: first_seen is set to the run time for a listing seen before
ReconcileFoundFirstSeenNow(listing, existing_listing, at) ==
    [listing EXCEPT
        !.id         = existing_listing.id,
        !.first_seen = Some(at),
        !.last_seen  = Some(at),
        !.is_new     = FALSE]

\* reconcile, the branch existing is not None (lines 302-323)
ReconcileFound(listing, existing_listing, at) ==
    LET l0 == [listing EXCEPT
                  !.id         = existing_listing.id,
                  !.first_seen = existing_listing.first_seen,
                  !.last_seen  = Some(at),
                  !.is_new     = FALSE]
        l1 == CarryWalkScore(l0, existing_listing)
        l2 == CarryFlood(l1, existing_listing)
        l3 == CarryCommute(l2, existing_listing)
        l4 == CarrySchool(l3, existing_listing)
    IN  CarryScore(l4, existing_listing)

\* variant: the lookup ignores the source
FetchExistingAnySource(rows, listing) ==
    {r \in rows : r.normalized_address = listing.normalized_address}

\* lines 289-293: cursor.fetchone() of the lookup by key, as a set with at
\* most one row
FetchExisting(rows, listing) ==
    SelectByKey(rows, listing.normalized_address, listing.source)

\* reconcile(listings) at clock value at, drawing uuid4() values from uuid
\* on.  The listings are changed in place; the two lists that are returned
\* hold the positions of their listings.
reconcile(rows, listings, at, uuid) ==
    LET n        == Len(listings)
        Found(i) == FetchExisting(rows, listings[i]) # {}
        Rank(i)  == Cardinality({j \in 1..(i - 1) : ~Found(j)})
    IN  [listings |->
            Eager([i \in 1..n |->
                IF Found(i)
                THEN ReconcileFound(listings[i],
                        _row_to_listing(CHOOSE r \in FetchExisting(rows, listings[i]) : TRUE),
                        at)
                ELSE ReconcileNew(listings[i], at, uuid + Rank(i))]),
         new_listings     |-> SelectSeq(Indices(n), LAMBDA i : ~Found(i)),
         updated_listings |-> SelectSeq(Indices(n), LAMBDA i : Found(i)),
         next_uuid        |-> uuid + Cardinality({i \in 1..n : ~Found(i)})]

\* int(x / 2) for the doubled median x: truncation toward zero
IntHalf(x) == IF x >= 0 THEN x \div 2 ELSE -((-x) \div 2)

\* [v for v in values if v]: the values that are set and not zero
TruthyValues(values) ==
    LET kept == SelectSeq(values, Truthy)
    IN  Eager([k \in 1..Len(kept) |-> Val(kept[k])])

\* [v for v in values if v is not None]
KnownValues(values) ==
    LET kept == SelectSeq(values, LAMBDA v : ~IsNone(v))
    IN  Eager([k \in 1..Len(kept) |-> Val(kept[k])])

\* int(statistics.median(values)) if values else None
IntMedian(values) ==
    IF values = <<>> THEN None ELSE Some(IntHalf(Median2(Sorted(values))))

\* the rows in some order, as the cursor returns them
RECURSIVE RowSeq(_)
RowSeq(rows) ==
    IF rows = {} THEN <<>>
    ELSE LET r == CHOOSE x \in rows : TRUE
         IN  <<r>> \o RowSeq(rows \ {r})

\* compute_area_stats: per zip code over the active rows.  The median price
\* per square foot is a fraction; it is read by the scoring prompt only
\* and is left out.
compute_area_stats(rows) ==
    LET active == {r \in rows : r.status = "active"}
        zips   == {r.zip_code : r \in active}
    IN  [z \in zips |->
            LET listings == RowSeq({r \in active : r.zip_code = z})
            IN  [area_key        |-> z,
                 median_price    |-> IntMedian(TruthyValues(
                                         [k \in DOMAIN listings |-> Some(listings[k].price)])),
                 median_lot_size |-> IntMedian(TruthyValues(
                                         [k \in DOMAIN listings |-> listings[k].lot_sqft])),
                 median_dom      |-> IntMedian(KnownValues(
                                         [k \in DOMAIN listings |-> listings[k].days_on_market])),
                 sample_size     |-> Len(listings)]]

---------------------------------------------------------------------------
(* src/main.py: the age filter, and the stages of run                      *)

\* config.py, FilterConfig: the defaults (multiplier in tenths)
filters == [max_dom_multiplier |-> Some(40), max_dom_absolute |-> 365]

\* the median DOM assumed for an area without one
DefaultMedianDom == 30

\* the floor of the effective maximum
FloorDays == 30

\* median_dom * multiplier rounded up instead of truncated
DynamicMaxRoundedUp(median_dom, multiplier10) ==
    (median_dom * multiplier10 + 9) \div 10

\* int(median_dom * multiplier), the multiplier in tenths
DynamicMax(median_dom, multiplier10) ==
    LET x == median_dom * multiplier10
    IN  IF x >= 0 THEN x \div 10 ELSE -((-x) \div 10)

\* _passes_age_filter
_passes_age_filter(listing, stats_by_zip, effective_filters) ==
    IF IsNone(listing.days_on_market) THEN TRUE
    ELSE LET median_dom ==
                 IF /\ listing.zip_code \in DOMAIN stats_by_zip
                    /\ Truthy(stats_by_zip[listing.zip_code].median_dom)
                 THEN Val(stats_by_zip[listing.zip_code].median_dom)
                 ELSE DefaultMedianDom
             dynamic_max   == DynamicMax(median_dom, Val(effective_filters.max_dom_multiplier))
             effective_max == Max(Min(dynamic_max, effective_filters.max_dom_absolute), FloorDays)
         IN  ~(Val(listing.days_on_market) > effective_max)

\* main.run lines 174-195: the settings of the age filter for this run
EffectiveFilters(report) ==
    [max_dom_multiplier |-> Some(report.recommended_max_dom_multiplier),
     max_dom_absolute   |-> Min(filters.max_dom_absolute, report.recommended_max_dom_absolute)]

\* the listings at the given positions
At(listings, positions) == Eager([k \in DOMAIN positions |-> listings[positions[k]]])

\* main.run lines 197-207: the positions whose listing passes the filter
Filtered(listings, positions, stats_by_zip, report) ==
    IF IsNone(filters.max_dom_multiplier)
    THEN positions
    ELSE SelectSeq(positions,
             LAMBDA i : _passes_age_filter(listings[i], stats_by_zip, EffectiveFilters(report)))

\* WalkScoreEnricher.enrich: the scores the service reports for a listing
WalkScores == [walk_score |-> Some(70), transit_score |-> Some(50), bike_score |-> Some(60)]

\* the listing after enrichment; answered says whether the service answered
\* with status 1
Enriched(listing, answered) ==
    IF \/ ~IsNone(listing.walk_score)
       \/ IsNone(listing.latitude) \/ IsNone(listing.longitude)
       \/ ~answered
    THEN listing
    ELSE [listing EXCEPT !.walk_score    = WalkScores.walk_score,
                         !.transit_score = WalkScores.transit_score,
                         !.bike_score    = WalkScores.bike_score]

\* the number the scoring backend answers with
BackendScore == 80

\* ScoringEngine.score: the default when there is no client or the call
\* fails, else the backend's number clamped to 0..100
ScoreOutcomes ==
    { [deal_score      |-> 50,
       score_breakdown |-> [rationale |-> "Scoring error", strengths |-> <<>>, weaknesses |-> <<>>]],
      [deal_score      |-> Max(0, Min(100, BackendScore)),
       score_breakdown |-> [rationale |-> "Priced below the area median",
                            strengths |-> <<"price">>, weaknesses |-> <<>>]] }

Scored(listing, outcome) ==
    [listing EXCEPT !.deal_score      = Some(outcome.deal_score),
                    !.score_breakdown = Some(outcome.score_breakdown)]

\* the listings the fetchers return in the pipeline runs: one property
\* listed by two sources under two spellings of its address, at the asking
\* price or reduced, the second source without coordinates and days on
\* market; and a second property, without coordinates, long on the market
Home == WithDom(FetchedListing("redfin", MainStreet, UrlOf("redfin"), Some(0), Some(0), 100, None), Some(10))

HomeReduced == [Home EXCEPT !.price = 90]

HomeRealtor == FetchedListing("realtor", MainSt, UrlOf("realtor"), None, None, 100, None)

StaleHome == WithDom(FetchedListing("redfin", OakAve, UrlOf("redfin"), None, None, 100, None), Some(400))

PipelineUniverse == {Home, HomeReduced, HomeRealtor, StaleHome}

\* the number of pipeline runs
MaxRuns == 2

\* the number of listings the fetchers return in one run
MaxFetched == 2

FetchedLists == UNION {[1..n -> PipelineUniverse] : n \in 0..MaxFetched}

InitPipeline ==
    /\ pc = "idle"
    /\ raw_listings = <<>>
    /\ InitRun
    /\ InitCalls
    /\ InitStore

\* main.run lines 121-138: a run starts and fetches; with nothing fetched it
\* returns at once
Fetch ==
    /\ pc = "idle"
    /\ runs < MaxRuns
    /\ runs' = runs + 1
    /\ now' = now + 1
    /\ db_at_start' = db
    /\ \E listings \in FetchedLists :
         IF listings = <<>>
         THEN pc' = "idle" /\ raw_listings' = <<>>
         ELSE pc' = "fetched" /\ raw_listings' = listings
    /\ UNCHANGED <<unique_listings, merged_from, rerun_listings, rerun_from,
                   marketVars, db, next_uuid, runVars, callVars, webVars>>

\* main.run line 148: new_listings, updated_listings = db.reconcile(unique_listings)
Reconcile ==
    /\ pc = "deduped"
    /\ pc' = "reconciled"
    /\ \E result \in {reconcile(db, unique_listings, now, next_uuid)} :
         /\ unique_listings' = result.listings
         /\ new_listings' = result.new_listings
         /\ updated_listings' = result.updated_listings
         /\ next_uuid' = result.next_uuid
    /\ UNCHANGED <<raw_listings, merged_from, rerun_listings, rerun_from, marketVars,
                   db, now, runs, db_at_start, area_stats, needs_scoring, again, callVars, webVars>>

\* main.run lines 154-159: the enrichers run on the new listings
Enrich ==
    /\ pc = "reconciled"
    /\ pc' = "enriched"
    /\ \E answered \in [Range(new_listings) -> BOOLEAN] :
         unique_listings' =
             Eager([i \in DOMAIN unique_listings |->
                 IF i \in Range(new_listings)
                 THEN Enriched(unique_listings[i], answered[i])
                 ELSE unique_listings[i]])
    /\ UNCHANGED <<raw_listings, merged_from, rerun_listings, rerun_from, marketVars,
                   storeVars, runVars, callVars, webVars>>

\* main.run lines 163-212: first write, area stats, market analysis and the
\* age filter
PersistAndFilter ==
    /\ pc = "enriched"
    /\ pc' = "filtered"
    /\ \E all_listings_unfiltered \in {At(unique_listings, new_listings \o updated_listings)} :
       \E rows \in {upsert_listings(db, all_listings_unfiltered, next_uuid, now)} :
       \E stats \in {compute_area_stats(rows)} :
       \E report \in {analyze_market(all_listings_unfiltered,
                                     At(unique_listings, new_listings), stats)} :
         /\ db' = rows
         /\ next_uuid' = next_uuid + UuidsDrawn(all_listings_unfiltered)
         /\ area_stats' = stats
         /\ all_listings' = all_listings_unfiltered
         /\ market_report' = Some(report)
         /\ new_listings' = Filtered(unique_listings, new_listings, stats, report)
         /\ updated_listings' = Filtered(unique_listings, updated_listings, stats, report)
    /\ UNCHANGED <<dedupVars, now, runs, db_at_start, needs_scoring, again, callVars, webVars>>

\* main.run lines 216-227: the listings without a score are scored
Score ==
    /\ pc = "filtered"
    /\ pc' = "scored"
    /\ \E needs \in {SelectSeq(new_listings \o updated_listings,
                               LAMBDA i : IsNone(unique_listings[i].deal_score))} :
         /\ needs_scoring' = needs
         /\ \E outcome \in [Range(needs) -> ScoreOutcomes] :
              unique_listings' =
                  Eager([i \in DOMAIN unique_listings |->
                      IF i \in Range(needs)
                      THEN Scored(unique_listings[i], outcome[i])
                      ELSE unique_listings[i]])
    /\ UNCHANGED <<raw_listings, merged_from, rerun_listings, rerun_from, marketVars,
                   storeVars, new_listings, updated_listings, area_stats, again, callVars, webVars>>

\* main.run line 230: db.upsert_listings(all_listings)
WriteBack ==
    /\ pc = "scored"
    /\ pc' = "written"
    /\ \E listings \in {At(unique_listings, new_listings \o updated_listings)} :
         /\ db' = upsert_listings(db, listings, next_uuid, now)
         /\ next_uuid' = next_uuid + UuidsDrawn(listings)
    /\ UNCHANGED <<dedupVars, marketVars, now, runs, db_at_start, runVars, callVars, webVars>>

\* main.run lines 232-263: map, newsletter and run log, none of which
\* writes the listings table; run returns and its locals are gone
Finish ==
    /\ pc = "written"
    /\ pc' = "idle"
    /\ raw_listings' = <<>>
    /\ unique_listings' = <<>>
    /\ merged_from' = <<>>
    /\ all_listings' = <<>>
    /\ market_report' = None
    /\ new_listings' = <<>>
    /\ updated_listings' = <<>>
    /\ area_stats' = <<>>
    /\ needs_scoring' = <<>>
    /\ UNCHANGED <<rerun_listings, rerun_from, storeVars, again, callVars, webVars>>

\* pipeline runs, one after the other, from an empty listings table
SpecPipeline ==
    InitPipeline /\ [][Fetch \/ Dedup \/ Reconcile \/ Enrich \/ PersistAndFilter
                       \/ Score \/ WriteBack \/ Finish]_vars

---------------------------------------------------------------------------
(* reconcile() called twice on the same input and the same listings table  *)

\* a listing as a finished run leaves it in the table
Persisted(listing, uuid, answered, outcomes) ==
    LET deduped    == Process(<<listing>>)
        reconciled == reconcile({}, deduped, 1, uuid)
        enriched   == Enriched(reconciled.listings[1], answered)
        scored     == IF outcomes = {} THEN enriched
                      ELSE Scored(enriched, CHOOSE o \in outcomes : TRUE)
    IN  upsert_listing({}, scored, uuid, 1)

\* the listings tables left by an earlier run: of each listing, no row, a
\* row that was filtered out before scoring, or an enriched and scored row
PriorStores ==
    { home \cup realtor \cup stale :
        home    \in {{}, Persisted(Home, 1, FALSE, {}), Persisted(Home, 1, TRUE, ScoreOutcomes)},
        realtor \in {{}, Persisted(HomeRealtor, 2, FALSE, ScoreOutcomes)},
        stale   \in {{}, Persisted(StaleHome, 3, FALSE, {})} }

FirstUnusedUuid == 4

InitReconcile ==
    /\ pc = "fetched"
    /\ db \in PriorStores
    /\ raw_listings \in FetchedLists \ {<<>>}
    /\ InitRun
    /\ InitCalls
    /\ db_at_start = db
    /\ now = 2
    /\ next_uuid = FirstUnusedUuid
    /\ runs = 1

\* a second call of reconcile on the fetched input, deduplicated again,
\* with the listings table as it was and the clock further on
ReconcileAgain ==
    /\ pc = "reconciled"
    /\ pc' = "reconciled_again"
    /\ now' = now + 1
    /\ \E result \in {reconcile(db, Process(raw_listings), now + 1, next_uuid)} :
         /\ again' = Some(result)
         /\ next_uuid' = result.next_uuid
    /\ UNCHANGED <<dedupVars, marketVars, db, runs, db_at_start,
                   new_listings, updated_listings, area_stats, needs_scoring, callVars, webVars>>

SpecReconcile == InitReconcile /\ [][Dedup \/ Reconcile \/ ReconcileAgain]_vars

---------------------------------------------------------------------------
(* Properties of the deduplicator                                          *)

\* the fingerprint of raw listing i, once process() has normalized it
RawFp(i) == FpOf(raw_listings[i])

Members(k) == Range(merged_from[k])

SameFpOtherSource(i, j) ==
    /\ i # j
    /\ raw_listings[i].source # raw_listings[j].source
    /\ RawFp(i) = RawFp(j)

\* C1: two listings of different sources with the same address fingerprint
\* are returned by process() as exactly one listing, whose source_urls has a
\* key for each of the two sources, with or without coordinates.
C1_SameFingerprintMergedWithBothUrls ==
    pc = "deduped" =>
        \A i, j \in 1..Len(raw_listings) :
            SameFpOtherSource(i, j) =>
                /\ Cardinality({k \in 1..Len(unique_listings) :
                                   Members(k) \cap {i, j} # {}}) = 1
                /\ \E k \in 1..Len(unique_listings) :
                       /\ {i, j} \subseteq Members(k)
                       /\ {raw_listings[i].source, raw_listings[j].source}
                              \subseteq DOMAIN unique_listings[k].source_urls

\* a merged pair without coordinates, one of its two listings without a URL
C1_Witness ==
    /\ pc = "deduped"
    /\ \E i, j \in 1..Len(raw_listings) :
           /\ SameFpOtherSource(i, j)
           /\ raw_listings[i].address # raw_listings[j].address
           /\ IsNone(raw_listings[i].latitude) /\ IsNone(raw_listings[j].latitude)
           /\ raw_listings[j].source_url = ""
           /\ \E k \in 1..Len(unique_listings) : {i, j} \subseteq Members(k)

\* C2: process() partitions its input into merge groups, one per returned
\* listing: every input listing is in exactly one group, and no two returned
\* listings have the same normalized address.
C2_GroupsPartitionInput ==
    pc = "deduped" =>
        /\ Len(merged_from) = Len(unique_listings)
        /\ Len(Flatten(merged_from)) = Len(raw_listings)
        /\ Range(Flatten(merged_from)) = 1..Len(raw_listings)
        /\ \A k \in 1..Len(unique_listings) :
               /\ merged_from[k] # <<>>
               /\ unique_listings[k].address = raw_listings[merged_from[k][1]].address
        /\ \A k1, k2 \in 1..Len(unique_listings) :
               k1 # k2 => /\ unique_listings[k1].normalized_address
                              # unique_listings[k2].normalized_address
                          /\ FpOf(unique_listings[k1]) # FpOf(unique_listings[k2])

\* three listings at three addresses, two of them geo-merged
C2_Witness ==
    /\ pc = "deduped"
    /\ Len(raw_listings) = 3
    /\ Len(unique_listings) = 2
    /\ \E k \in 1..2 : \E i, j \in Members(k) : RawFp(i) # RawFp(j)

\* C3: process() is idempotent: run on the list it returned, it returns the
\* same list.
C3_ProcessIdempotent ==
    pc = "rerun" => rerun_listings = unique_listings

\* the three geo-match conditions of C4, on a pair of listings
C4_LocationClose(a, b) ==
    /\ ~IsNone(a.latitude) /\ ~IsNone(a.longitude)
    /\ ~IsNone(b.latitude) /\ ~IsNone(b.longitude)
    /\ Abs(Val(a.latitude) - Val(b.latitude)) < 10
    /\ Abs(Val(a.longitude) - Val(b.longitude)) < 10

C4_PriceClose(a, b) ==
    /\ Max(a.price, b.price) > 0
    /\ 100 * Min(a.price, b.price) >= 95 * Max(a.price, b.price)

C4_RoomsAgree(a, b) ==
    /\ (IsNone(a.bedrooms) \/ IsNone(b.bedrooms) \/ a.bedrooms = b.bedrooms)
    /\ (IsNone(a.bathrooms) \/ IsNone(b.bathrooms) \/ a.bathrooms = b.bathrooms)

\* C4: two input listings with different fingerprints are in the same merge
\* group only if the pair satisfies all three geo-match conditions.
C4_MergedPairsGeoMatch ==
    pc = "deduped" =>
        \A k \in 1..Len(merged_from) : \A i, j \in Members(k) :
            RawFp(i) # RawFp(j) =>
                /\ C4_LocationClose(raw_listings[i], raw_listings[j])
                /\ C4_PriceClose(raw_listings[i], raw_listings[j])
                /\ C4_RoomsAgree(raw_listings[i], raw_listings[j])

---------------------------------------------------------------------------
(* Properties of the market analyzer                                       *)

BatchDoms == DomValues(all_listings)

\* number of known DOM values below, or at most, d
DomsBelow(d) == Cardinality({k \in DOMAIN BatchDoms : BatchDoms[k] < d})

DomsUpTo(d) == Cardinality({k \in DOMAIN BatchDoms : BatchDoms[k] <= d})

\* the value at rank r (1 = smallest) among the known DOM values
DomAtRank(r) == CHOOSE d \in Range(BatchDoms) : DomsBelow(d) < r /\ r <= DomsUpTo(d)

\* twice the median of the known DOM values: the sum of the two middle
\* ranks, which are the same rank when the count is odd
BatchMedian2 ==
    LET n == Len(BatchDoms)
    IN  DomAtRank((n + 1) \div 2) + DomAtRank(n \div 2 + 1)

\* the band of a doubled median m2 as the bands are documented
BandOf(m2) ==
    IF m2 < 2 * 14 THEN "very_hot"
    ELSE IF m2 < 2 * 30 THEN "hot"
    ELSE IF m2 < 2 * 60 THEN "normal"
    ELSE IF m2 < 2 * 90 THEN "slow"
    ELSE "very_slow"

Analyzed == pc = "analyzed" /\ BatchDoms # <<>>

Report == Val(market_report)

\* C9: whenever a batch has at least one known DOM, the report's median is
\* the median of the known DOM values and its condition is very_hot below
\* 14, hot from 14 to below 30, normal from 30 to below 60, slow from 60 to
\* below 90 and very_slow from 90 on; the DOM values 10, 20, 30, 40, 50
\* give median 30 and condition normal.
C9_ConditionFollowsMedianBands ==
    Analyzed =>
        /\ Report.median_dom2 = BatchMedian2
        /\ Report.condition = BandOf(BatchMedian2)
        /\ BatchDoms = <<10, 20, 30, 40, 50>> =>
              Report.median_dom2 = 2 * 30 /\ Report.condition = "normal"

C9_Witness ==
    /\ Analyzed
    /\ BatchDoms = <<10, 20, 30, 40, 50>>
    /\ Report.condition = "normal"

ReducedCount == CountReductions(all_listings)

\* C10: when the median DOM is in the hot or very_hot band and more than
\* 30% of the batch is price-reduced, or it is in the slow or very_slow
\* band and under 10% is price-reduced, the report's condition is normal.
C10_ReportConditionAdjusted ==
    Analyzed =>
        /\ ( /\ BandOf(BatchMedian2) \in {"hot", "very_hot"}
             /\ 100 * ReducedCount > 30 * Len(all_listings) )
           => Report.condition = "normal"
        /\ ( /\ BandOf(BatchMedian2) \in {"slow", "very_slow"}
             /\ 100 * ReducedCount < 10 * Len(all_listings) )
           => Report.condition = "normal"

---------------------------------------------------------------------------
(* Properties of the reconciler and of the listings table                  *)

SameKey(a, b) == a.normalized_address = b.normalized_address /\ a.source = b.source

\* the listing's (normalized_address, source) key has a persisted row
HasRow(listing) == \E r \in db : SameKey(r, listing)

Occurrences(positions, i) == Cardinality({k \in DOMAIN positions : positions[k] = i})

\* C5: after reconcile(), every deduplicated listing whose key has no
\* persisted row is in the new collection and not in the updated one, has
\* is_new = true, an id that no row and no other listing has, and
\* first_seen = last_seen = the run time; every input listing is in exactly
\* one of the two collections, exactly once.
C5_UnseenListingsAreNew ==
    pc = "reconciled" =>
        /\ Len(new_listings) + Len(updated_listings) = Len(unique_listings)
        /\ \A i \in DOMAIN unique_listings :
             /\ Occurrences(new_listings \o updated_listings, i) = 1
             /\ ~HasRow(unique_listings[i]) =>
                  /\ Occurrences(new_listings, i) = 1
                  /\ Occurrences(updated_listings, i) = 0
                  /\ unique_listings[i].is_new = TRUE
                  /\ unique_listings[i].first_seen = Some(now)
                  /\ unique_listings[i].last_seen = Some(now)
                  /\ ~IsNone(unique_listings[i].id)
                  /\ \A r \in db : r.id # unique_listings[i].id
                  /\ \A j \in DOMAIN unique_listings :
                       j # i => unique_listings[j].id # unique_listings[i].id

C5_Witness ==
    /\ pc = "reconciled"
    /\ \E i \in Range(new_listings) :
         /\ ~HasRow(unique_listings[i])
         /\ \E r \in db : r.normalized_address = unique_listings[i].normalized_address
    /\ updated_listings # <<>>

\* the rows of the key of listing i when the run started
PriorRows(i) == {r \in db_at_start : SameKey(r, unique_listings[i])}

\* of these, the rows with the fetched price and a deal score
ScoredAtPrice(i) ==
    {r \in PriorRows(i) : r.price = unique_listings[i].price /\ ~IsNone(r.deal_score)}

Reconciled == pc \in {"reconciled", "enriched", "filtered", "scored", "written"}

\* C6: from reconciliation to the end of the run, a listing whose key was
\* persisted with the fetched price and a deal score carries the persisted
\* score and breakdown, is not among the listings that are scored, and its
\* persisted row keeps the score and breakdown it had before the run.
C6_UnchangedListingKeepsScore ==
    Reconciled =>
        \A i \in DOMAIN unique_listings : \A r \in ScoredAtPrice(i) :
            /\ unique_listings[i].deal_score = r.deal_score
            /\ unique_listings[i].score_breakdown = r.score_breakdown
            /\ i \notin Range(needs_scoring)
            /\ \E s \in db : SameKey(s, r)
            /\ \A s \in db : SameKey(s, r) =>
                  /\ s.deal_score = r.deal_score
                  /\ s.score_breakdown = r.score_breakdown

C6_Witness ==
    /\ pc = "written"
    /\ \E i \in DOMAIN unique_listings :
         /\ ScoredAtPrice(i) # {}
         /\ \E s \in db : SameKey(s, unique_listings[i]) /\ s.last_seen = Some(now)

\* the listing is equal to the other one in every field but the given ones
EqualBut(a, b, fields) ==
    \A f \in DOMAIN a : f \notin fields => a[f] = b[f]

Second == Val(again)

\* C7 as stated: a second reconcile() of the same input against the same
\* listings table gives the same new/updated classification and listings
\* that differ from the first call's in last_seen only.
C7_SecondCallChangesLastSeenOnly ==
    pc = "reconciled_again" =>
        /\ Second.new_listings = new_listings
        /\ Second.updated_listings = updated_listings
        /\ \A i \in DOMAIN unique_listings :
             EqualBut(Second.listings[i], unique_listings[i], {"last_seen"})

\* C7, amended: the second call gives the same classification; a listing
\* found in the table differs in last_seen only, a listing not found
\* differs in last_seen and in the id and first_seen it is given anew.
C7_SecondCallKeepsFoundListings ==
    pc = "reconciled_again" =>
        /\ Second.new_listings = new_listings
        /\ Second.updated_listings = updated_listings
        /\ \A i \in Range(updated_listings) :
             EqualBut(Second.listings[i], unique_listings[i], {"last_seen"})
        /\ \A i \in Range(new_listings) :
             EqualBut(Second.listings[i], unique_listings[i],
                      {"last_seen", "first_seen", "id"})

C7_Witness ==
    /\ pc = "reconciled_again"
    /\ \E i \in Range(updated_listings) :
         /\ ~IsNone(unique_listings[i].deal_score)
         /\ Second.listings[i].last_seen # unique_listings[i].last_seen
    /\ new_listings # <<>>

\* no two rows have the same (normalized_address, source)
OneRowPerKey == \A r, s \in db : SameKey(r, s) => r = s

\* a row stays, under its id
RowsStay == \A r \in db : \E s \in db' : SameKey(s, r) /\ s.id = r.id

\* after the first write of a run every listing of the batch is stored
\* under its key with the values of this run
BatchStored ==
    pc = "filtered" =>
        \A k \in DOMAIN all_listings :
            \E s \in db : /\ SameKey(s, all_listings[k])
                          /\ s.price = all_listings[k].price
                          /\ s.last_seen = Some(now)
                          /\ \A r \in db_at_start : SameKey(r, s) => s.id = r.id

\* C8: in every state of every sequence of runs the table has at most one
\* row per (normalized_address, source); a write of a listing whose key is
\* stored puts the listing's values into that row and keeps the row's id;
\* no step removes a row.
C8_OneRowPerKeyAndRowsStay ==
    /\ [](OneRowPerKey /\ BatchStored)
    /\ [][RowsStay]_vars

C8_Witness ==
    /\ pc = "filtered"
    /\ \E r \in db_at_start : \E s \in db :
         /\ SameKey(r, s)
         /\ s.id = r.id
         /\ s.price # r.price
         /\ s.last_seen # r.last_seen
    /\ Cardinality(db) > 1

\* the adjusted band: normal for a hot or very_hot band with more than 30%
\* of the batch reduced and for a slow or very_slow band with under 10%
\* reduced, else the band of the median
AdjustedBand ==
    LET band == BandOf(BatchMedian2)
    IN  IF band \in {"hot", "very_hot"} /\ 100 * ReducedCount > 30 * Len(all_listings)
        THEN "normal"
        ELSE IF band \in {"slow", "very_slow"} /\ 100 * ReducedCount < 10 * Len(all_listings)
             THEN "normal"
             ELSE band

\* the documented pairs (multiplier in tenths, absolute cap in days)
PairOf(band) ==
    CASE band = "very_hot"  -> <<30, 60>>
      [] band = "hot"       -> <<35, 120>>
      [] band = "normal"    -> <<40, 180>>
      [] band = "slow"      -> <<50, 270>>
      [] band = "very_slow" -> <<60, 365>>

RecommendedPair ==
    <<Report.recommended_max_dom_multiplier, Report.recommended_max_dom_absolute>>

\* C11: in every report the recommended (multiplier, absolute cap) is the
\* documented pair of the adjusted band; a batch without any known DOM
\* gets a report (no exception) with condition normal and the pair 4.0/180.
C11_SettingsFollowAdjustedBand ==
    pc = "analyzed" =>
        /\ ~IsNone(market_report)
        /\ BatchDoms # <<>> => RecommendedPair = PairOf(AdjustedBand)
        /\ BatchDoms = <<>> =>
              Report.condition = "normal" /\ RecommendedPair = <<40, 180>>

C11_Witness ==
    /\ Analyzed
    /\ AdjustedBand # BandOf(BatchMedian2)
    /\ BandOf(BatchMedian2) = "hot"
    /\ RecommendedPair = <<40, 180>>


---------------------------------------------------------------------------
(* src/main.py: _passes_age_filter called on its own                       *)

\* the days on market of the listing under the filter
FilterDoms ==
    {None} \cup {Some(d) : d \in {0, 29, 30, 31, 45, 100, 101, 115, 116, 119, 120,
                                   121, 180, 181, 365, 366, 400}}

\* the AreaStats of the listing's ZIP code, as far as the filter reads them
AreaStatsOf(median_dom) ==
    [area_key |-> Zip, median_price |-> Some(100), median_lot_size |-> None,
     median_dom |-> median_dom, sample_size |-> 3]

\* area_stats: no entry for the ZIP code, or one with or without a median
FilterAreaStats ==
    {<<>>} \cup {[z \in {Zip} |-> AreaStatsOf(median_dom)] :
                   median_dom \in {None, Some(0), Some(5), Some(30), Some(33), Some(91)}}

\* main.run lines 174-195: the multiplier is the one analyze_market recommends
FilterMultipliers == {RECOMMENDED_SETTINGS[c].max_dom_multiplier : c \in DOMAIN RECOMMENDED_SETTINGS}

\* max_dom_absolute: the smaller of the configured and the recommended cap
FilterCaps == {20, 100, 180, 365}

InitFilter ==
    /\ pc = "filter_called"
    /\ \E dom \in FilterDoms, stats_by_zip \in FilterAreaStats,
          k \in FilterMultipliers, c \in FilterCaps :
           age_filter = Some([listing    |-> WithDom(Home, dom),
                              area_stats |-> stats_by_zip,
                              filters    |-> [max_dom_multiplier |-> Some(k),
                                              max_dom_absolute   |-> c],
                              result     |-> None])
    /\ scorer = None
    /\ sub_score = None
    /\ addresses = None
    /\ InitWeb
    /\ raw_listings = <<>>
    /\ InitRun
    /\ InitStore

\* the call returns
PassesAgeFilter ==
    /\ pc = "filter_called"
    /\ pc' = "filter_returned"
    /\ age_filter' = Some([Val(age_filter) EXCEPT !.result =
           Some(_passes_age_filter(Val(age_filter).listing, Val(age_filter).area_stats,
                                   Val(age_filter).filters))])
    /\ UNCHANGED <<dedupVars, marketVars, storeVars, runVars, scorer, sub_score, addresses, webVars>>

SpecFilter == InitFilter /\ [][PassesAgeFilter]_vars

---------------------------------------------------------------------------
(* Claims on the age filter                                                *)

FilterReturned == pc = "filter_returned"

FilterDom == Val(age_filter).listing.days_on_market

\* the median DOM of the listing's area, None when the area has no stats or
\* its stats have no median
FilterAreaMedian ==
    IF Zip \in DOMAIN Val(age_filter).area_stats
    THEN Val(age_filter).area_stats[Zip].median_dom
    ELSE None

FilterM == IF IsNone(FilterAreaMedian) THEN 30 ELSE Val(FilterAreaMedian)

FilterK10 == Val(Val(age_filter).filters.max_dom_multiplier)

FilterC == Val(age_filter).filters.max_dom_absolute

FilterKept == Val(Val(age_filter).result)

\* C12: a listing of unknown DOM is kept; a listing of known DOM d in an area
\* of positive median DOM m (30 without stats) is kept exactly when
\* d <= max(30, min(m*k, c)), compared here in tenths of a day; with m = 30,
\* k = 4.0 and c = 365, DOM 120 is kept and DOM 121 is excluded
C12_KeptIffWithinEffectiveMax ==
    FilterReturned =>
        /\ IsNone(FilterDom) => FilterKept
        /\ ~IsNone(FilterDom) /\ FilterM > 0 =>
               (FilterKept <=> 10 * Val(FilterDom) <= Max(300, Min(FilterM * FilterK10, 10 * FilterC)))
        /\ FilterM = 30 /\ FilterK10 = 40 /\ FilterC = 365 =>
               /\ FilterDom = Some(120) => FilterKept
               /\ FilterDom = Some(121) => ~FilterKept

\* a listing one day over a fractional product m*k = 115.5 is excluded
C12_Witness ==
    /\ FilterReturned
    /\ FilterAreaMedian = Some(33) /\ FilterK10 = 35 /\ FilterC = 365
    /\ FilterDom = Some(116)
    /\ ~FilterKept

---------------------------------------------------------------------------
(* src/scoring/engine.py: ScoringEngine.score, and the scoring loop of     *)
(* main.run.  A JSON value is a record of its type and its value; a float  *)
(* is kept in tenths.                                                      *)

JsonInt(n) == [type |-> "int", v |-> <<n>>]

JsonFloat(tenths) == [type |-> "float", v |-> <<tenths>>]

JsonNaN == [type |-> "nan", v |-> <<>>]

JsonStr(chars) == [type |-> "str", v |-> chars]

\* a string that the code does not take apart, as one unit
Text(s) == JsonStr(<<s>>)

JsonNull == [type |-> "null", v |-> <<>>]

Digits == <<"0", "1", "2", "3", "4", "5", "6", "7", "8", "9">>

IsDigit(ch) == \E d \in DOMAIN Digits : Digits[d] = ch

DigitValue(ch) == (CHOOSE d \in DOMAIN Digits : Digits[d] = ch) - 1

RECURSIVE DecimalValue(_)
DecimalValue(chars) ==
    IF chars = <<>> THEN 0
    ELSE 10 * DecimalValue(SubSeq(chars, 1, Len(chars) - 1)) + DigitValue(chars[Len(chars)])

\* int(x): None when it raises, else the integer
PyInt(x) ==
    CASE x.type = "int"   -> Some(x.v[1])
      [] x.type = "float" -> Some(IF x.v[1] >= 0 THEN x.v[1] \div 10 ELSE -((-x.v[1]) \div 10))
      [] x.type = "str"   -> IF x.v # <<>> /\ \A i \in DOMAIN x.v : IsDigit(x.v[i])
                             THEN Some(DecimalValue(x.v)) ELSE None
      [] OTHER            -> None

\* format(x, ".0f") is defined for numbers only
FormatsAsFloat(x) == x.type \in {"int", "float", "nan"}

\* _build_listing_prompt: None when it raises, else the prompt (the fields
\* it is built from).  The one format specification applied to a value whose
\* type the Listing model leaves open is the one of line 90.
_build_listing_prompt(listing, stats) ==
    IF /\ TruthyDict(listing.commute_minutes)
       /\ \E dest \in DOMAIN Val(listing.commute_minutes) :
              ~FormatsAsFloat(Val(listing.commute_minutes)[dest])
    THEN None
    ELSE Some([address |-> listing.address, price |-> listing.price,
               days_on_market |-> listing.days_on_market,
               commute_minutes |-> listing.commute_minutes,
               area_key |-> stats.area_key])

NeutralScore == 50

Neutral(rationale) ==
    [raised |-> FALSE, score |-> Some(NeutralScore),
     breakdown |-> Some([rationale |-> Text(rationale), strengths |-> <<>>, weaknesses |-> <<>>])]

Raised == [raised |-> TRUE, score |-> None, breakdown |-> None]

\* dict.get(key, default)
Get(result, key, default) == IF key \in DOMAIN result THEN result[key] ELSE default

\* lines 166-199: the try block and its handlers, given what
\* client.messages.create and json.loads do
ScoreGuarded(response) ==
    CASE response.kind = "api_error" -> Neutral("Scoring error - API failure")
      [] response.kind = "error"     -> Neutral("Scoring error - unexpected failure")
      [] response.kind = "malformed" -> Neutral("Scoring error - could not parse response")
      [] response.kind = "not_object" -> Neutral("Scoring error - unexpected failure")
      [] OTHER ->
           LET result == response.result
           IN  IF "score" \notin DOMAIN result \/ IsNone(PyInt(result["score"]))
               THEN Neutral("Scoring error - unexpected failure")
               ELSE [raised |-> FALSE,
                     score |-> Some(Max(0, Min(100, Val(PyInt(result["score"]))))),
                     breakdown |-> Some([rationale  |-> Get(result, "rationale", Text("")),
                                         strengths  |-> <<>>,
                                         weaknesses |-> <<>>])]

\* ScoringEngine.score; client says whether self.client is set
ScoringEngine_score(client, listing, stats, response) ==
    IF ~client THEN Neutral("No API key - default score")
    ELSE IF IsNone(_build_listing_prompt(listing, stats)) THEN Raised
    ELSE ScoreGuarded(response)

\* what the backend answers with under "score"
BackendScores ==
    {JsonInt(-7), JsonInt(0), JsonInt(37), JsonInt(100), JsonInt(150),
     JsonFloat(809), JsonFloat(-5), JsonFloat(1005), JsonNaN, JsonNull,
     JsonStr(<<"8", "5">>), JsonStr(<<"h", "i", "g", "h">>)}

NoResult == <<>>

\* what client.messages.create and json.loads do on one call
BackendResponses ==
    {[kind |-> k, result |-> NoResult] : k \in {"api_error", "error", "malformed", "not_object"}}
    \cup {[kind |-> "object", result |-> [key \in {"rationale"} |-> Text("fair")]]}
    \cup {[kind |-> "object", result |-> [key \in {"score"} |-> score]] : score \in BackendScores}
    \cup {[kind |-> "object",
           result |-> [key \in {"score", "rationale"} |->
                          IF key = "score" THEN JsonInt(72) ELSE rationale]] :
              rationale \in {Text("fair"), JsonNull}}

\* the commute_minutes a Listing may carry: none, whole minutes as the
\* commute enricher sets them, and values of the other JSON types
CommuteValues ==
    {None,
     Some([dest \in {"Office"} |-> JsonInt(25)]),
     Some([dest \in {"Office"} |-> JsonNull]),
     Some([dest \in {"Office"} |-> JsonStr(<<"2", "5">>)])}

ScoringUniverse == {[Home EXCEPT !.commute_minutes = commute] : commute \in CommuteValues}

\* the number of listings that need scoring
MaxScored == 2

\* main.run line 223
ZipStats(stats_by_zip, listing) ==
    IF listing.zip_code \in DOMAIN stats_by_zip
    THEN stats_by_zip[listing.zip_code]
    ELSE [area_key |-> listing.zip_code, median_price |-> None, median_lot_size |-> None,
          median_dom |-> None, sample_size |-> 0]

\* main.run lines 216-220: the listings that need scoring and the scorer
InitScoring ==
    /\ pc = "scoring"
    /\ \E n \in 1..MaxScored :
         /\ unique_listings \in [1..n -> ScoringUniverse]
         /\ needs_scoring = Eager([i \in 1..n |-> i])
    /\ \E client \in BOOLEAN : scorer = Some([client |-> client, next |-> 1, call |-> None])
    /\ area_stats \in {<<>>, [z \in {Zip} |-> AreaStatsOf(Some(30))]}
    /\ raw_listings = <<>>
    /\ merged_from = <<>>
    /\ rerun_listings = <<>>
    /\ rerun_from = <<>>
    /\ all_listings = <<>>
    /\ market_report = None
    /\ new_listings = <<>>
    /\ updated_listings = <<>>
    /\ again = None
    /\ age_filter = None
    /\ sub_score = None
    /\ addresses = None
    /\ InitWeb
    /\ InitStore

\* main.run lines 222-224: one turn of the loop; an exception that
\* scorer.score raises leaves the loop and run
ScoreNext ==
    /\ pc = "scoring"
    /\ Val(scorer).next <= Len(needs_scoring)
    /\ \E response \in IF Val(scorer).client THEN BackendResponses
                       ELSE {[kind |-> "error", result |-> NoResult]} :
         LET i       == needs_scoring[Val(scorer).next]
             listing == unique_listings[i]
             outcome == ScoringEngine_score(Val(scorer).client, listing,
                                            ZipStats(area_stats, listing), response)
         IN  /\ scorer' = Some([Val(scorer) EXCEPT
                                   !.next = IF outcome.raised THEN @ ELSE @ + 1,
                                   !.call = Some([listing |-> listing, response |-> response,
                                                  outcome |-> outcome])])
             /\ IF outcome.raised
                THEN pc' = "raised" /\ UNCHANGED unique_listings
                ELSE /\ pc' = pc
                     /\ unique_listings' =
                            [unique_listings EXCEPT ![i] =
                                [@ EXCEPT !.deal_score      = outcome.score,
                                          !.score_breakdown = outcome.breakdown]]
    /\ UNCHANGED <<raw_listings, merged_from, rerun_listings, rerun_from, marketVars,
                   storeVars, new_listings, updated_listings, area_stats, needs_scoring,
                   again, age_filter, sub_score, addresses, webVars>>

\* main.run: the loop is through
ScoringDone ==
    /\ pc = "scoring"
    /\ Val(scorer).next > Len(needs_scoring)
    /\ pc' = "scored"
    /\ UNCHANGED <<dedupVars, marketVars, storeVars, runVars, callVars, webVars>>

SpecScoring == InitScoring /\ [][ScoreNext \/ ScoringDone]_vars

---------------------------------------------------------------------------
(* Claims on the scoring engine and the scoring loop                       *)

ScoreCalled == ~IsNone(scorer) /\ ~IsNone(Val(scorer).call)

LastCall == Val(Val(scorer).call)

---------------------------------------------------------------------------
(* Python floats (IEEE 754 binary64, round to nearest, ties to even).      *)
(* A float is kept as an exact fraction n, the value in real arithmetic,   *)
(* plus an error e counted in units of 2^-52 / 20: the float is n + e*u.   *)
(* Fractions are pairs <<numerator, denominator>> in lowest terms with a   *)
(* positive denominator.  Sums and differences are exact before rounding;  *)
(* a quotient keeps the terms of first order in u (the terms in u*u are    *)
(* below 10^-30 and the inputs used here are never that close to a         *)
(* rounding boundary).                                                     *)

RECURSIVE GCD(_, _)
GCD(a, b) == IF b = 0 THEN a ELSE GCD(b, a % b)

Frac(a, b) ==
    LET g == GCD(Abs(a), Abs(b))
        s == IF b < 0 THEN -1 ELSE 1
    IN  <<(s * a) \div g, (s * b) \div g>>

FracInt(k) == <<k, 1>>

FracAdd(x, y) == Frac(x[1] * y[2] + y[1] * x[2], x[2] * y[2])

FracNeg(x) == <<-x[1], x[2]>>

FracSub(x, y) == FracAdd(x, FracNeg(y))

FracMul(x, y) == Frac(x[1] * y[1], x[2] * y[2])

FracDiv(x, y) == Frac(x[1] * y[2], x[2] * y[1])

FracLess(x, y) == x[1] * y[2] < y[1] * x[2]

\* math.floor of a fraction
FracFloor(x) == IF x[1] >= 0 THEN x[1] \div x[2] ELSE -((-x[1] + x[2] - 1) \div x[2])

RECURSIVE Pow2(_)
Pow2(k) == IF k = 0 THEN 1 ELSE 2 * Pow2(k - 1)

\* 2^E as a fraction
FracPow2(E) == IF E >= 0 THEN <<Pow2(E), 1>> ELSE <<1, Pow2(-E)>>

\* 2^k modulo m
RECURSIVE Pow2Mod(_, _)
Pow2Mod(k, m) ==
    IF k = 0 THEN 1 % m
    ELSE LET h == Pow2Mod(k \div 2, m)
         IN  IF k % 2 = 0 THEN (h * h) % m ELSE (2 * ((h * h) % m)) % m

\* the binary exponent E of a positive fraction: 2^E <= x < 2^(E+1)
RECURSIVE ExponentFrom(_, _)
ExponentFrom(x, E) ==
    IF FracLess(x, FracPow2(E)) THEN ExponentFrom(x, E - 1)
    ELSE IF ~FracLess(x, FracPow2(E + 1)) THEN ExponentFrom(x, E + 1)
    ELSE E

Exponent(x) == ExponentFrom(x, 0)

\* the number of bits of a binary64 significand after the leading one
SignificandBits == 52

Float(n, e) == [n |-> n, e |-> e]

FloatNeg(x) == Float(FracNeg(x.n), FracNeg(x.e))

\* the float nearest to n + e*u, for n > 0
RoundPositive(n, e) ==
    LET E0    == Exponent(n)
        E     == IF n = FracPow2(E0) /\ FracLess(e, FracInt(0)) THEN E0 - 1 ELSE E0
        \* the spacing of floats around n, in units of u
        g     == FracMul(FracInt(20), FracPow2(E))
        k     == SignificandBits - E
        \* n in units of the spacing: its fractional part and the parity of
        \* its integer part
        r     == ((n[1] % n[2]) * Pow2Mod(k, n[2])) % n[2]
        r2    == ((n[1] % (2 * n[2])) * Pow2Mod(k, 2 * n[2])) % (2 * n[2])
        odd   == IF r2 >= n[2] THEN 1 ELSE 0
        t     == FracAdd(Frac(r, n[2]), FracDiv(e, g))
        carry == FracFloor(t)
        tf    == FracSub(t, FracInt(carry))
        half  == Frac(1, 2)
        down  == FracNeg(tf)
        up    == FracSub(FracInt(1), tf)
        d     == IF FracLess(tf, half) THEN down
                 ELSE IF FracLess(half, tf) THEN up
                 ELSE IF (odd + carry) % 2 = 0 THEN down ELSE up
    IN  Float(n, FracAdd(e, FracMul(d, g)))

\* the float nearest to n + e*u
Round(n, e) ==
    IF n[1] = 0 THEN Float(n, e)
    ELSE IF n[1] < 0 THEN FloatNeg(RoundPositive(FracNeg(n), FracNeg(e)))
    ELSE RoundPositive(n, e)

\* the float of a literal or of int / int
FloatOf(a, b) == Round(Frac(a, b), FracInt(0))

FloatSub(x, y) == Round(FracSub(x.n, y.n), FracSub(x.e, y.e))

FloatDiv(x, y) ==
    Round(FracDiv(x.n, y.n),
          FracSub(FracDiv(x.e, y.n), FracDiv(FracMul(x.n, y.e), FracMul(y.n, y.n))))

FloatLess(x, y) == FracLess(x.n, y.n) \/ (x.n = y.n /\ FracLess(x.e, y.e))

\* min(x, y) and max(x, y) of Python: the first argument unless the second
\* is smaller (larger)
FloatMin(x, y) == IF FloatLess(y, x) THEN y ELSE x

FloatMax(x, y) == IF FloatLess(x, y) THEN y ELSE x

FloatZero == FloatOf(0, 1)

FloatOne == FloatOf(1, 1)

FloatHalf == FloatOf(1, 2)

---------------------------------------------------------------------------
(* src/scoring/criteria.py: sub-scoring functions                          *)

\* x or y of Python on Optional[int]
OrElse(x, y) == IF Truthy(x) THEN x ELSE y

\* score_price_vs_estimate
score_price_vs_estimate(listing, stats) ==
    LET estimate == OrElse(listing.redfin_estimate, listing.zestimate)
    IN  IF ~Truthy(estimate) THEN FloatHalf
        ELSE LET ratio == FloatOf(listing.price, Val(estimate))
             IN  FloatMax(FloatZero,
                     FloatMin(FloatOne,
                         FloatDiv(FloatSub(FloatOf(115, 100), ratio), FloatOf(30, 100))))

\* score_days_on_market
score_days_on_market(listing, stats) ==
    IF IsNone(listing.days_on_market) THEN FloatHalf
    ELSE LET median_dom == IF Truthy(stats.median_dom) THEN Val(stats.median_dom) ELSE 30
             threshold  == Max(median_dom * 3, 120)
         IN  FloatMin(FloatOne, FloatOf(Val(listing.days_on_market), threshold))

\* score_walk_score
score_walk_score(listing, stats) ==
    IF IsNone(listing.walk_score) THEN FloatHalf
    ELSE FloatOf(Val(listing.walk_score), 100)

\* score_bed_bath_value
score_bed_bath_value(listing, stats) ==
    IF ~Truthy(listing.bedrooms) \/ listing.price = 0 THEN FloatHalf
    ELSE LET baths          == IF Truthy(listing.bathrooms) THEN Val(listing.bathrooms) ELSE 0
             rooms          == FloatOf(Val(listing.bedrooms) + baths, 1)
             value_per_100k == FloatDiv(rooms, FloatOf(listing.price, 100000))
         IN  FloatMin(FloatOne, FloatDiv(value_per_100k, FloatOf(3, 1)))

\* the listing the calls start from
BaseListing == [Home EXCEPT !.price = 100000]

\* listings that differ in the fields one of the functions reads
EstimateListings ==
    {[BaseListing EXCEPT !.price = price, !.redfin_estimate = redfin, !.zestimate = zest] :
        price \in {0, 84000, 85000, 90000, 100000, 110000, 115000, 116000},
        redfin \in {None, Some(0), Some(100000)},
        zest \in {None, Some(100000), Some(200000)}}

DomListings ==
    {[BaseListing EXCEPT !.days_on_market = dom] :
        dom \in {None, Some(-3), Some(0), Some(60), Some(120), Some(5000)}}

WalkListings ==
    {[BaseListing EXCEPT !.walk_score = walk] :
        walk \in {None, Some(-10), Some(0), Some(55), Some(100), Some(150)}}

RoomListings ==
    {[BaseListing EXCEPT !.bedrooms = beds, !.bathrooms = baths, !.price = price] :
        beds \in {None, Some(-2), Some(0), Some(3), Some(50)},
        baths \in {None, Some(2)},
        price \in {-100000, 0, 85000, 100000, 250000}}

CriteriaListings == EstimateListings \cup DomListings \cup WalkListings \cup RoomListings

CriteriaAreaStats == {AreaStatsOf(median_dom) : median_dom \in {None, Some(0), Some(100)}}

InitCriteria ==
    /\ pc = "criteria"
    /\ \E listing \in CriteriaListings, stats \in CriteriaAreaStats :
           sub_score = Some([listing |-> listing, area_stats |-> stats,
                             name |-> None, value |-> None])
    /\ age_filter = None
    /\ scorer = None
    /\ addresses = None
    /\ InitWeb
    /\ raw_listings = <<>>
    /\ InitRun
    /\ InitStore

\* the named function has returned r
SubScored(name, r) ==
    /\ pc = "criteria"
    /\ pc' = "sub_scored"
    /\ sub_score' = Some([Val(sub_score) EXCEPT !.name = Some(name), !.value = Some(r)])
    /\ UNCHANGED <<dedupVars, marketVars, storeVars, runVars, age_filter, scorer, addresses, webVars>>

ScorePriceVsEstimate ==
    SubScored("price_vs_estimate",
              score_price_vs_estimate(Val(sub_score).listing, Val(sub_score).area_stats))

ScoreDaysOnMarket ==
    SubScored("days_on_market",
              score_days_on_market(Val(sub_score).listing, Val(sub_score).area_stats))

ScoreWalkScore ==
    SubScored("walk_score",
              score_walk_score(Val(sub_score).listing, Val(sub_score).area_stats))

ScoreBedBathValue ==
    SubScored("bed_bath_value",
              score_bed_bath_value(Val(sub_score).listing, Val(sub_score).area_stats))

SpecCriteria ==
    InitCriteria /\ [][ScorePriceVsEstimate \/ ScoreDaysOnMarket \/ ScoreWalkScore
                       \/ ScoreBedBathValue]_vars

---------------------------------------------------------------------------
(* Claims on the sub-scoring functions                                     *)

SubScoreReturned == pc = "sub_scored"

SubScoreName == Val(Val(sub_score).name)

SubScoreValue == Val(Val(sub_score).value)

SubScoreListing == Val(sub_score).listing

\* C15: every sub-scoring function returns a value in [0, 1] for every
\* listing and area stats, absent fields and extreme values included
C15_SubScoresWithinUnitInterval ==
    SubScoreReturned =>
        /\ ~FloatLess(SubScoreValue, FloatZero)
        /\ ~FloatLess(FloatOne, SubScoreValue)

\* the estimate the function uses, None when no estimate is known
KnownEstimate == OrElse(SubScoreListing.redfin_estimate, SubScoreListing.zestimate)

\* C16: the price-vs-estimate sub-score is 0.5 without an estimate and when
\* the price equals the estimate, 1.0 when the price is 15% or more below
\* the estimate, 0.0 when it is 15% or more above, and the linear value
\* (1.15 - price/estimate) / 0.30 in between
C16_PriceVsEstimateValues ==
    SubScoreReturned /\ SubScoreName = "price_vs_estimate" =>
        LET price == SubScoreListing.price
        IN  IF ~Truthy(KnownEstimate) THEN SubScoreValue = FloatHalf
            ELSE LET estimate == Val(KnownEstimate)
                 IN  /\ price = estimate => SubScoreValue = FloatHalf
                     /\ 100 * price <= 85 * estimate => SubScoreValue = FloatOne
                     /\ 100 * price >= 115 * estimate => SubScoreValue = FloatZero
                     /\ 85 * estimate < 100 * price /\ 100 * price < 115 * estimate =>
                            SubScoreValue.n = Frac(115 * estimate - 100 * price, 30 * estimate)

---------------------------------------------------------------------------
(* src/dedup/deduplicator.py: normalize_address and address_fingerprint on *)
(* two spellings of one address                                            *)

\* an address as a source spells it
Spelling(address, city, state, zip_code) ==
    [address |-> address, city |-> city, state |-> state, zip_code |-> zip_code]

SpelledOut ==
    {Spelling(<<"1", " ", "N", "o", "r", "t", "h", "w", "e", "s", "t", " ",
                "O", "a", "k", " ", "S", "t", "r", "e", "e", "t">>,
              <<"C", "h", "i", "c", "a", "g", "o">>, <<"I", "L">>,
              <<"6", "0", "6", "1", "4">>),
     Spelling(<<"7", " ", "s", "o", "u", "t", "h", " ", "e", "l", "m", " ",
                "a", "v", "e", "n", "u", "e">>,
              <<"e", "v", "a", "n", "s", "t", "o", "n">>, <<"i", "l">>,
              <<"6", "0", "2", "0", "1">>)}

\* the other case of a letter
OtherCase(ch) ==
    IF ch \in DOMAIN LowerCaseOf THEN LowerCaseOf[ch]
    ELSE IF ch \in DOMAIN UpperCaseOf THEN UpperCaseOf[ch]
    ELSE ch

\* the spellings that differ from s in the case of one letter of the address,
\* the city or the state, or of all letters of one of them
CaseVariants(s) ==
    {[s EXCEPT !.address = [@ EXCEPT ![i] = OtherCase(@)]] : i \in DOMAIN s.address}
    \cup {[s EXCEPT !.city = [@ EXCEPT ![i] = OtherCase(@)]] : i \in DOMAIN s.city}
    \cup {[s EXCEPT !.state = [@ EXCEPT ![i] = OtherCase(@)]] : i \in DOMAIN s.state}
    \cup {[s EXCEPT !.address = Upper(@)], [s EXCEPT !.city = Upper(@)],
          [s EXCEPT !.state = Lower(@)], [s EXCEPT !.state = Upper(@)]}

\* the spellings with one more ".", "," or "'" in the address
PunctuationVariants(s) ==
    {[s EXCEPT !.address = SubSeq(@, 1, i) \o <<ch>> \o SubSeq(@, i + 1, Len(@))] :
        i \in 0..Len(s.address), ch \in {".", ",", "'"}}

\* the spellings with one street or direction word of the address replaced by
\* its abbreviation
AbbreviationVariants(s) ==
    LET tokens == Split(s.address)
    IN  {[s EXCEPT !.address = Join([tokens EXCEPT ![k] = STREET_ABBREVS[Lower(@)]])] :
            k \in {j \in DOMAIN tokens : Lower(tokens[j]) \in DOMAIN STREET_ABBREVS}}

\* the spelling with a ZIP+4 code
ZipVariants(s) ==
    {[s EXCEPT !.zip_code = @ \o <<"-", "1", "2", "3", "4">>]}

\* the kinds of variant, in the order in which a second spelling takes them
VariantKinds == <<"abbreviation", "case", "punctuation", "zip">>

VariantsOfKind(kind, s) ==
    CASE kind = "abbreviation" -> AbbreviationVariants(s)
      [] kind = "case"         -> CaseVariants(s)
      [] kind = "punctuation"  -> PunctuationVariants(s)
      [] kind = "zip"          -> ZipVariants(s)

InitAddresses ==
    /\ pc = "spelling"
    /\ \E s \in SpelledOut :
           addresses = Some([original |-> s, variant |-> s, kinds |-> <<>>,
                             fingerprints |-> None])
    /\ age_filter = None
    /\ scorer = None
    /\ sub_score = None
    /\ InitWeb
    /\ raw_listings = <<>>
    /\ InitRun
    /\ InitStore

\* a source spells the address in one more way differently
Respell ==
    /\ pc = "spelling"
    /\ \E k \in DOMAIN VariantKinds :
         /\ \A j \in DOMAIN Val(addresses).kinds :
                \E i \in 1..(k - 1) : VariantKinds[i] = Val(addresses).kinds[j]
         /\ \E v \in VariantsOfKind(VariantKinds[k], Val(addresses).variant) :
                addresses' = Some([Val(addresses) EXCEPT
                                      !.variant = v,
                                      !.kinds = Append(@, VariantKinds[k])])
    /\ UNCHANGED <<pc, dedupVars, marketVars, storeVars, runVars, age_filter, scorer, sub_score, webVars>>

FingerprintOf(s) ==
    address_fingerprint(normalize_address(s.address, s.city, s.state, s.zip_code))

\* Deduplicator.process lines 137-142 on the two spellings
Fingerprint ==
    /\ pc = "spelling"
    /\ pc' = "fingerprinted"
    /\ addresses' = Some([Val(addresses) EXCEPT !.fingerprints =
           Some(<<FingerprintOf(Val(addresses).original), FingerprintOf(Val(addresses).variant)>>)])
    /\ UNCHANGED <<dedupVars, marketVars, storeVars, runVars, age_filter, scorer, sub_score, webVars>>

SpecAddresses == InitAddresses /\ [][Respell \/ Fingerprint]_vars

---------------------------------------------------------------------------
(* Claims on the address fingerprint                                       *)

Fingerprints == Val(Val(addresses).fingerprints)

---------------------------------------------------------------------------
(* user pipelines: the monthly run over the approved users                 *)
(* (user_pipeline.py) and the background pipelines that the admin pages    *)
(* start (web/app.py)                                                      *)

\* the ids of the search requests, in the order of their created_at
Requests == {1, 2}

\* the number of background threads the admin pages start
MaxThreads == 3

\* db.update_user_run_status(request_id, status); the write is committed
update_user_run_status(rows, request_id, status) ==
    [rows EXCEPT ![request_id].run_status = Some(status)]

\* db.update_request_status(request_id, status)
update_request_status(rows, request_id, status) ==
    [rows EXCEPT ![request_id].status = status]

\* db.get_approved_subscribers(): the ids of the approved requests, ordered
\* by created_at
get_approved_subscribers(rows) ==
    SelectSeq(Indices(Cardinality(Requests)), LAMBDA id : rows[id].status = "approved")

\* run_for_user lines 242-243, reached when nothing before them raised
run_for_user(rows, request_id) == update_user_run_status(rows, request_id, "completed")

\* variant: the handler logs the exception and records nothing
ExceptHandlerLogsOnly(rows, request_id) == rows

\* the except clause around run_for_user: the failure is logged and recorded
ExceptHandler(rows, request_id) == update_user_run_status(rows, request_id, "failed")

\* variant: leaving the with block gives no slot back
SemaphoreExitKeepsSlot(value) == value

\* with _pipeline_semaphore: __exit__ releases the slot, on return and on
\* an exception alike
SemaphoreExit(value) == value + 1

\* with _pipeline_semaphore: __enter__ blocks while the counter is 0
SemaphoreCanEnter(value) == value > 0

\* the rows admin pages and earlier runs leave: a request waits for
\* approval, or is approved with the status of its last run
RequestRows ==
    { [status |-> "pending", run_status |-> None],
      [status |-> "approved", run_status |-> Some("completed")],
      [status |-> "approved", run_status |-> Some("failed")] }

InitUsers ==
    /\ pc = "serving"
    /\ search_requests \in [Requests -> RequestRows]
    /\ threads = <<>>
    /\ _pipeline_semaphore = 2
    /\ bulk_run = None
    /\ http_response = None
    /\ age_filter = None
    /\ scorer = None
    /\ sub_score = None
    /\ addresses = None
    /\ raw_listings = <<>>
    /\ InitRun
    /\ InitStore

\* what the user pipelines leave alone
UsersUnchanged == UNCHANGED <<pc, dedupVars, marketVars, storeVars, runVars, callVars, http_response>>

\* a thread as threading.Thread(target=_run_pipeline).start() leaves it
Started(request_id) ==
    [request_id |-> request_id, at |-> "started", raised |-> FALSE]

\* admin_approve lines 276-313
AdminApprove(request_id) ==
    /\ Len(threads) < MaxThreads
    /\ search_requests' =
           update_user_run_status(
               update_request_status(search_requests, request_id, "approved"),
               request_id, "running")
    /\ threads' = Append(threads, Started(request_id))
    /\ UNCHANGED <<_pipeline_semaphore, bulk_run>>
    /\ UsersUnchanged

\* admin_rerun lines 357-384
AdminRerun(request_id) ==
    /\ Len(threads) < MaxThreads
    /\ search_requests[request_id].status = "approved"
    /\ search_requests' = update_user_run_status(search_requests, request_id, "running")
    /\ threads' = Append(threads, Started(request_id))
    /\ UNCHANGED <<_pipeline_semaphore, bulk_run>>
    /\ UsersUnchanged

\* _run_pipeline: with _pipeline_semaphore, entered
EnterSemaphore(t) ==
    /\ threads[t].at = "started"
    /\ SemaphoreCanEnter(_pipeline_semaphore)
    /\ _pipeline_semaphore' = _pipeline_semaphore - 1
    /\ threads' = [threads EXCEPT ![t].at = "executing"]
    /\ UNCHANGED <<search_requests, bulk_run>>
    /\ UsersUnchanged

\* _run_pipeline: the try block runs to its end, run_for_user returns
PipelineReturns(t) ==
    /\ threads[t].at = "executing"
    /\ search_requests' = run_for_user(search_requests, threads[t].request_id)
    /\ threads' = [threads EXCEPT ![t].at = "returned"]
    /\ UNCHANGED <<_pipeline_semaphore, bulk_run>>
    /\ UsersUnchanged

\* _run_pipeline: load_config, send_welcome or run_for_user raises
PipelineRaises(t) ==
    /\ threads[t].at = "executing"
    /\ threads' = [threads EXCEPT ![t].at = "raised", ![t].raised = TRUE]
    /\ UNCHANGED <<search_requests, _pipeline_semaphore, bulk_run>>
    /\ UsersUnchanged

\* _run_pipeline: except Exception (lines 306-308 and 377-379)
PipelineFailed(t) ==
    /\ threads[t].at = "raised"
    /\ search_requests' = ExceptHandler(search_requests, threads[t].request_id)
    /\ threads' = [threads EXCEPT ![t].at = "handled"]
    /\ UNCHANGED <<_pipeline_semaphore, bulk_run>>
    /\ UsersUnchanged

\* _run_pipeline: finally, and the end of the with block
LeaveSemaphore(t) ==
    /\ threads[t].at \in {"returned", "handled"}
    /\ _pipeline_semaphore' = SemaphoreExit(_pipeline_semaphore)
    /\ threads' = [threads EXCEPT ![t].at = "ended"]
    /\ UNCHANGED <<search_requests, bulk_run>>
    /\ UsersUnchanged

\* one step of a background thread
ThreadStep(t) ==
    \/ EnterSemaphore(t)
    \/ PipelineReturns(t)
    \/ PipelineRaises(t)
    \/ PipelineFailed(t)
    \/ LeaveSemaphore(t)

\* run_all_approved_users lines 266-275: the approved users are read; with
\* none the function returns
BulkStart ==
    /\ bulk_run = None
    /\ \E approved \in {get_approved_subscribers(search_requests)} :
         bulk_run' = Some([approved |-> approved, user |-> 1, raised |-> {},
                           at |-> IF approved = <<>> THEN "done" ELSE "bulk"])
    /\ UNCHANGED <<search_requests, threads, _pipeline_semaphore>>
    /\ UsersUnchanged

\* lines 277-332: the bulk fetch, dedup, reconcile, enrich and scoring end
BulkStageReturns ==
    /\ ~IsNone(bulk_run)
    /\ Val(bulk_run).at = "bulk"
    /\ bulk_run' = Some([Val(bulk_run) EXCEPT !.at = "loop"])
    /\ UNCHANGED <<search_requests, threads, _pipeline_semaphore>>
    /\ UsersUnchanged

\* lines 277-332 stand in no try block: what raises there leaves
\* run_all_approved_users before the loop over the users
BulkStageRaises ==
    /\ ~IsNone(bulk_run)
    /\ Val(bulk_run).at = "bulk"
    /\ bulk_run' = Some([Val(bulk_run) EXCEPT !.at = "aborted"])
    /\ UNCHANGED <<search_requests, threads, _pipeline_semaphore>>
    /\ UsersUnchanged

\* the user the loop of line 335 is at
BulkUser == Val(bulk_run).approved[Val(bulk_run).user]

\* the loop moves on; after the last user the function returns
BulkMovedOn(run) ==
    [run EXCEPT !.user = @ + 1,
                !.at = IF run.user = Len(run.approved) THEN "done" ELSE "loop"]

\* line 337
BulkMarkRunning ==
    /\ ~IsNone(bulk_run)
    /\ Val(bulk_run).at = "loop"
    /\ search_requests' = update_user_run_status(search_requests, BulkUser, "running")
    /\ bulk_run' = Some([Val(bulk_run) EXCEPT !.at = "running"])
    /\ UNCHANGED <<threads, _pipeline_semaphore>>
    /\ UsersUnchanged

\* line 338, run_for_user returns
BulkUserReturns ==
    /\ ~IsNone(bulk_run)
    /\ Val(bulk_run).at = "running"
    /\ search_requests' = run_for_user(search_requests, BulkUser)
    /\ bulk_run' = Some(BulkMovedOn(Val(bulk_run)))
    /\ UNCHANGED <<threads, _pipeline_semaphore>>
    /\ UsersUnchanged

\* line 338, run_for_user raises
BulkUserRaises ==
    /\ ~IsNone(bulk_run)
    /\ Val(bulk_run).at = "running"
    /\ bulk_run' = Some([Val(bulk_run) EXCEPT !.at = "raised", !.raised = @ \cup {Val(bulk_run).user}])
    /\ UNCHANGED <<search_requests, threads, _pipeline_semaphore>>
    /\ UsersUnchanged

\* lines 339-341
BulkUserFailed ==
    /\ ~IsNone(bulk_run)
    /\ Val(bulk_run).at = "raised"
    /\ search_requests' = ExceptHandler(search_requests, BulkUser)
    /\ bulk_run' = Some(BulkMovedOn(Val(bulk_run)))
    /\ UNCHANGED <<threads, _pipeline_semaphore>>
    /\ UsersUnchanged

NextUsers ==
    \/ \E request_id \in Requests : AdminApprove(request_id)
    \/ \E request_id \in Requests : AdminRerun(request_id)
    \/ \E t \in DOMAIN threads : ThreadStep(t)
    \/ BulkStart
    \/ BulkStageReturns
    \/ BulkStageRaises
    \/ BulkMarkRunning
    \/ BulkUserReturns
    \/ BulkUserRaises
    \/ BulkUserFailed

\* the web application serves the admin pages while the monthly run is
\* started once
SpecUsers == InitUsers /\ [][NextUsers]_vars

\* the admin pages alone: the first request waits for approval, the second
\* is approved and its last run completed
InitBackground ==
    /\ InitUsers
    /\ search_requests[1] = [status |-> "pending", run_status |-> None]
    /\ search_requests[2] = [status |-> "approved", run_status |-> Some("completed")]

NextBackground ==
    \/ \E request_id \in Requests : AdminApprove(request_id)
    \/ \E request_id \in Requests : AdminRerun(request_id)
    \/ \E t \in DOMAIN threads : ThreadStep(t)

\* every thread that can take a step goes on: a thread that waits enters
\* once a slot stays free, and a pipeline under way ends
SpecBackground ==
    /\ InitBackground
    /\ [][NextBackground]_vars
    /\ \A t \in 1..MaxThreads : WF_vars(t \in DOMAIN threads /\ ThreadStep(t))

\* the runs of user u that have started and not yet recorded how they
\* ended: in a background thread, and in the loop of the monthly run
RunsUnderWay(u) ==
    {<<"thread", t>> : t \in {t \in DOMAIN threads :
                                 /\ threads[t].request_id = u
                                 /\ threads[t].at \in {"started", "executing", "raised"}}}
    \cup (IF /\ ~IsNone(bulk_run)
             /\ Val(bulk_run).at \in {"running", "raised"}
             /\ BulkUser = u
          THEN {<<"bulk", Val(bulk_run).user>>} ELSE {})

\* the runs of user u that have ended, each with whether it raised
RunsEnded(u) ==
    {[run |-> <<"thread", t>>, raised |-> threads[t].raised] :
        t \in {t \in DOMAIN threads :
                  /\ threads[t].request_id = u
                  /\ threads[t].at \in {"returned", "handled", "ended"}}}
    \cup (IF IsNone(bulk_run) THEN {}
          ELSE {[run |-> <<"bulk", i>>, raised |-> i \in Val(bulk_run).raised] :
                   i \in {i \in DOMAIN Val(bulk_run).approved :
                             /\ i < Val(bulk_run).user
                             /\ Val(bulk_run).approved[i] = u}})

Executing ==
    {t \in DOMAIN threads : threads[t].at \in {"executing", "raised", "returned", "handled"}}

\* C19: at most 2 of the pipelines started in the background by
\* admin_approve and admin_rerun are executing at any moment, a slot is
\* free again once a pipeline has ended, by returning or by raising, and a
\* pipeline that was started and waits for a slot eventually executes.
C19_AtMostTwoExecuteAndEveryPipelineRuns ==
    /\ [](/\ Cardinality(Executing) <= 2
          /\ _pipeline_semaphore = 2 - Cardinality(Executing))
    /\ \A t \in 1..MaxThreads :
           (t \in DOMAIN threads /\ threads[t].at = "started")
               ~> (t \in DOMAIN threads /\ threads[t].at = "executing")

\* the pipeline admin_approve started for the first request has raised and
\* ended, and the third pipeline, a rerun for the same request, executes
\* next to the second in the slot the first gave back
C19_Witness ==
    /\ Len(threads) = 3
    /\ threads[1].request_id = 1
    /\ threads[1].at = "ended"
    /\ threads[1].raised
    /\ threads[2].request_id = 2
    /\ threads[2].at = "executing"
    /\ threads[3].request_id = 1
    /\ threads[3].at = "executing"
    /\ _pipeline_semaphore = 0


---------------------------------------------------------------------------
(* the three entry points that fetch and write listings: main.run,         *)
(* run_for_user with fetch_new and run_all_approved_users.  The three      *)
(* fetch, deduplicate, reconcile and enrich in the same way (main.py       *)
(* 121-159, user_pipeline.py 149-174 and 299-318) and part after that.     *)

\* the entry points of user_pipeline.py
UserEntries == {"run_for_user", "run_all_approved_users"}

\* the positions of the two entry points after the enrichers
Stage ==
    [run_for_user |->
        [upserted |-> "user_upserted", stats |-> "user_stats",
         scored |-> "user_scored", written |-> "user_written"],
     run_all_approved_users |->
        [upserted |-> "bulk_upserted", stats |-> "bulk_stats",
         scored |-> "bulk_scored", written |-> "bulk_written"]]

\* all_fetched = new_listings + updated_listings
all_fetched == At(unique_listings, new_listings \o updated_listings)

\* run_for_user line 178, run_all_approved_users line 321:
\* db.upsert_listings(all_fetched); each row is committed as it is written
UpsertFetched(entry) ==
    /\ pc = "enriched"
    /\ pc' = Stage[entry].upserted
    /\ db' = upsert_listings(db, all_fetched, next_uuid, now)
    /\ next_uuid' = next_uuid + UuidsDrawn(all_fetched)
    /\ UNCHANGED <<dedupVars, marketVars, now, runs, db_at_start, runVars, callVars, webVars>>

\* lines 181 and 323: area_stats = db.compute_area_stats()
ComputeAreaStats(entry) ==
    /\ pc = Stage[entry].upserted
    /\ pc' = Stage[entry].stats
    /\ area_stats' = compute_area_stats(db)
    /\ UNCHANGED <<dedupVars, marketVars, storeVars, new_listings, updated_listings,
                   needs_scoring, again, callVars, webVars>>

\* lines 182-187 and 324-329: the fetched listings without a score are
\* scored
ScoreFetched(entry) ==
    /\ pc = Stage[entry].stats
    /\ pc' = Stage[entry].scored
    /\ \E needs \in {SelectSeq(new_listings \o updated_listings,
                               LAMBDA i : IsNone(unique_listings[i].deal_score))} :
         /\ needs_scoring' = needs
         /\ \E outcome \in [Range(needs) -> ScoreOutcomes] :
              unique_listings' =
                  Eager([i \in DOMAIN unique_listings |->
                      IF i \in Range(needs)
                      THEN Scored(unique_listings[i], outcome[i])
                      ELSE unique_listings[i]])
    /\ UNCHANGED <<raw_listings, merged_from, rerun_listings, rerun_from, marketVars,
                   storeVars, new_listings, updated_listings, area_stats, again,
                   callVars, webVars>>

\* lines 188 and 330: db.upsert_listings(needs_scoring)
WriteScores(entry) ==
    /\ pc = Stage[entry].scored
    /\ pc' = Stage[entry].written
    /\ \E listings \in {At(unique_listings, needs_scoring)} :
         /\ db' = upsert_listings(db, listings, next_uuid, now)
         /\ next_uuid' = next_uuid + UuidsDrawn(listings)
    /\ UNCHANGED <<dedupVars, marketVars, now, runs, db_at_start, runVars, callVars, webVars>>

\* run_for_user lines 190-251 and run_all_approved_users lines 332-344:
\* the outputs of the users, none of which writes the listings table; the
\* function returns and its locals are gone
FinishFetched(entry) ==
    /\ pc = Stage[entry].written
    /\ pc' = "idle"
    /\ raw_listings' = <<>>
    /\ unique_listings' = <<>>
    /\ merged_from' = <<>>
    /\ new_listings' = <<>>
    /\ updated_listings' = <<>>
    /\ area_stats' = <<>>
    /\ needs_scoring' = <<>>
    /\ UNCHANGED <<rerun_listings, rerun_from, marketVars, storeVars, again, callVars, webVars>>

\* an earlier run has ended and left its rows in the listings table
InitRuns ==
    /\ pc = "idle"
    /\ db \in PriorStores
    /\ raw_listings = <<>>
    /\ InitRun
    /\ InitCalls
    /\ db_at_start = db
    /\ now = 2
    /\ next_uuid = FirstUnusedUuid
    /\ runs = 1

NextRuns ==
    \/ Fetch \/ Dedup \/ Reconcile \/ Enrich
    \/ PersistAndFilter \/ Score \/ WriteBack \/ Finish
    \/ \E entry \in UserEntries : UpsertFetched(entry)
    \/ \E entry \in UserEntries : ComputeAreaStats(entry)
    \/ \E entry \in UserEntries : ScoreFetched(entry)
    \/ \E entry \in UserEntries : WriteScores(entry)
    \/ \E entry \in UserEntries : FinishFetched(entry)

\* runs of the three entry points, one after the other, on the listings
\* table an earlier run left
SpecRuns == InitRuns /\ [][NextRuns]_vars

\* the run has computed its area stats and its age filter or its scoring
\* stage reads them
StatsInUse ==
    pc \in {"filtered", "scored", "user_stats", "user_scored", "bulk_stats", "bulk_scored"}

\* the run has not come to compute_area_stats
BeforeStats ==
    pc \in {"idle", "fetched", "deduped", "reconciled", "enriched",
            "user_upserted", "bulk_upserted"}

\* the new and updated listings of the run's batch
Batch == IF pc \in {"filtered", "scored"} THEN all_listings ELSE all_fetched

\* C20: in a run of each of the three entry points the area stats are
\* not computed before the batch is written; while the age filter and the
\* scoring stage read them, they are the stats of the listings table as it
\* is after the upsert of the batch, and every new and updated listing of
\* the batch is stored in the table with the values of this run.
C20_AreaStatsComputedAfterBatchWritten ==
    /\ BeforeStats => area_stats = <<>>
    /\ StatsInUse =>
         /\ area_stats = compute_area_stats(db)
         /\ \A k \in DOMAIN Batch :
              \E s \in db : /\ SameKey(s, Batch[k])
                            /\ s.price = Batch[k].price
                            /\ s.days_on_market = Batch[k].days_on_market
                            /\ s.last_seen = Some(now)

\* the scoring stage of a bulk run works with stats that differ from the
\* stats of the table as the run found it: the run has written a changed
\* price
C20_Witness ==
    /\ pc = "bulk_scored"
    /\ db_at_start # {}
    /\ needs_scoring # <<>>
    /\ area_stats # compute_area_stats(db_at_start)
    /\ \E z \in DOMAIN area_stats :
         /\ z \in DOMAIN compute_area_stats(db_at_start)
         /\ area_stats[z].median_price # compute_area_stats(db_at_start)[z].median_price


---------------------------------------------------------------------------
(* a key over a sequence of runs of main.run                               *)

\* a row keeps its first_seen
FirstSeenStays ==
    \A r \in db : \A s \in db' : SameKey(s, r) => s.first_seen = r.first_seen

\* C21: over runs of main.run one after the other, reconcile() classifies a
\* deduplicated listing as new only when no earlier run stored its
\* (normalized_address, source) key; a listing whose key is stored is
\* classified as updated and not as new, with is_new = false, the id and
\* first_seen of the stored row and last_seen = the time of this run.  No
\* step changes the first_seen of a row, and in every row and every
\* reconciled listing first_seen <= last_seen.
C21_SeenKeyUpdatedWithFirstIdentity ==
    /\ [](/\ pc = "reconciled" =>
               \A i \in DOMAIN unique_listings :
                   /\ Occurrences(new_listings, i) = 1 => PriorRows(i) = {}
                   /\ \A r \in PriorRows(i) :
                        /\ Occurrences(updated_listings, i) = 1
                        /\ Occurrences(new_listings, i) = 0
                        /\ unique_listings[i].is_new = FALSE
                        /\ unique_listings[i].id = r.id
                        /\ unique_listings[i].first_seen = r.first_seen
                        /\ unique_listings[i].last_seen = Some(now)
          /\ Reconciled =>
               \A i \in DOMAIN unique_listings :
                   Val(unique_listings[i].first_seen) <= Val(unique_listings[i].last_seen)
          /\ \A r \in db : Val(r.first_seen) <= Val(r.last_seen))
    /\ [][FirstSeenStays]_vars

\* the second run has fetched a key that the first run stored, at a changed
\* price, together with a key that is new
C21_Witness ==
    /\ pc = "written"
    /\ runs = 2
    /\ \E i \in DOMAIN unique_listings : \E r \in PriorRows(i) : \E s \in db :
         /\ SameKey(s, r)
         /\ s.price # r.price
         /\ s.first_seen = r.first_seen
         /\ Val(s.first_seen) < Val(s.last_seen)
         /\ s.is_new = FALSE
    /\ \E i \in DOMAIN unique_listings : PriorRows(i) = {}


---------------------------------------------------------------------------
(* reconcile() of one listing whose key is stored: the enrichment groups   *)

\* the listing with the walk, transit and bike scores and the flood zone
\* and risk rating given
WithEnrichment(listing, walk, transit, bike, zone, rating) ==
    [listing EXCEPT !.walk_score = walk, !.transit_score = transit, !.bike_score = bike,
                    !.flood_zone = zone, !.flood_risk_rating = rating]

\* the fetched listing, deduplicated, with each field of the two groups set
\* or not
CarryFetched ==
    {WithEnrichment(Process(<<Home>>)[1], walk, transit, bike, zone, rating) :
        walk \in {None, Some(70)}, transit \in {None, Some(50)}, bike \in {None, Some(60)},
        zone \in {None, Some("AE")}, rating \in {None, Some("high")}}

\* the tables an earlier run left, with the row of the same key
CarryStores ==
    {Persisted(WithEnrichment(Home, walk, transit, bike, zone, rating), 1, FALSE, {}) :
        walk \in {None, Some(80)}, transit \in {None, Some(40)}, bike \in {None, Some(30)},
        zone \in {None, Some("X")}, rating \in {None, Some("low")}}

InitCarry ==
    /\ pc = "deduped"
    /\ db \in CarryStores
    /\ \E listing \in CarryFetched :
         /\ raw_listings = <<listing>>
         /\ unique_listings = <<listing>>
    /\ merged_from = <<<<1>>>>
    /\ rerun_listings = <<>>
    /\ rerun_from = <<>>
    /\ all_listings = <<>>
    /\ market_report = None
    /\ new_listings = <<>>
    /\ updated_listings = <<>>
    /\ area_stats = <<>>
    /\ needs_scoring = <<>>
    /\ again = None
    /\ InitCalls
    /\ db_at_start = db
    /\ now = 2
    /\ next_uuid = FirstUnusedUuid
    /\ runs = 1

SpecCarry == InitCarry /\ [][Reconcile]_vars

ScoreTriple(x) == <<x.walk_score, x.transit_score, x.bike_score>>

FloodPair(x) == <<x.flood_zone, x.flood_risk_rating>>

\* C22: after reconcile() of a listing whose key is stored, the listing's
\* (walk_score, transit_score, bike_score) is as a whole the fetched triple
\* or as a whole the triple of the stored row, and it is the stored one only
\* when the fetched listing has no walk_score and the stored row has one;
\* the same holds, independently, for (flood_zone, flood_risk_rating) with
\* flood_risk_rating as the field that decides.
C22_EnrichmentGroupsCarriedWhole ==
    pc = "reconciled" =>
        \A r \in PriorRows(1) :
            LET fetched == raw_listings[1]
                listing == unique_listings[1]
            IN  /\ updated_listings = <<1>>
                /\ ScoreTriple(listing) \in {ScoreTriple(fetched), ScoreTriple(r)}
                /\ ScoreTriple(listing) # ScoreTriple(fetched) =>
                       IsNone(fetched.walk_score) /\ ~IsNone(r.walk_score)
                /\ (IsNone(fetched.walk_score) /\ ~IsNone(r.walk_score)) =>
                       ScoreTriple(listing) = ScoreTriple(r)
                /\ FloodPair(listing) \in {FloodPair(fetched), FloodPair(r)}
                /\ FloodPair(listing) # FloodPair(fetched) =>
                       IsNone(fetched.flood_risk_rating) /\ ~IsNone(r.flood_risk_rating)
                /\ (IsNone(fetched.flood_risk_rating) /\ ~IsNone(r.flood_risk_rating)) =>
                       FloodPair(listing) = FloodPair(r)

\* the stored triple is carried over as a whole while the fetched flood
\* pair stays as a whole
C22_Witness ==
    /\ pc = "reconciled"
    /\ \E r \in PriorRows(1) :
         /\ ScoreTriple(raw_listings[1]) = <<None, None, None>>
         /\ ScoreTriple(r) = <<Some(80), Some(40), None>>
         /\ ScoreTriple(unique_listings[1]) = ScoreTriple(r)
         /\ FloodPair(raw_listings[1]) = <<Some("AE"), Some("high")>>
         /\ FloodPair(r) = <<Some("X"), Some("low")>>
         /\ FloodPair(unique_listings[1]) = FloodPair(raw_listings[1])


---------------------------------------------------------------------------
(* geo-matching of listings whose price is zero or negative                *)

\* listings of one source at three properties with the same coordinates,
\* at a price that is negative, zero or positive
PriceUniverse ==
    {FetchedListing("redfin", address, UrlOf("redfin"), Some(0), Some(0), price, None) :
        address \in {MainStreet, OakAve, ElmRd},
        price \in {-100, -96, 0, 100}}

\* one pass over listings that differ in price
SpecPrices == InitDedup(PriceUniverse) /\ [][Dedup]_vars

\* C23: a listing whose price is zero or negative is never geo-matched: no
\* listing with another fingerprint is in its merge group, whatever the
\* price of the other one.
C23_NonPositivePriceNeverGeoMatched ==
    pc = "deduped" =>
        \A k \in 1..Len(merged_from) : \A i, j \in Members(k) :
            raw_listings[i].price <= 0 => RawFp(j) = RawFp(i)


---------------------------------------------------------------------------
(* merging of the listings of one property                                 *)

\* a listing of the property of MainStreet without coordinates, bedrooms,
\* square feet and days on market
MergeReference(source, address) ==
    FetchedListing(source, address, UrlOf(source), None, None, 100, None)

\* listings of two sources at one property under two spellings of its
\* address; each differs from the reference in at most one of coordinates
\* (both, or one of the two), bedrooms, square feet and days on market
MergeUniverse ==
    UNION {
        {MergeReference(source, address)}
        \cup
        {[MergeReference(source, address) EXCEPT !.latitude = c[1], !.longitude = c[2]] :
            c \in {<<None, Some(5)>>, <<Some(1), Some(2)>>, <<Some(3), None>>}}
        \cup
        {[MergeReference(source, address) EXCEPT !.bedrooms = Some(3)],
         [MergeReference(source, address) EXCEPT !.sqft = Some(1000)],
         [MergeReference(source, address) EXCEPT !.days_on_market = Some(7)]}
        : source \in {"redfin", "realtor"}, address \in {MainStreet, MainSt}}

\* one pass over listings of one property
SpecMerge == InitDedup(MergeUniverse) /\ [][Dedup]_vars

\* the base of merge group k: its first member
Base(k) == raw_listings[merged_from[k][1]]

\* C24: the merge of a group never overwrites a coordinate that is set: a
\* latitude that is set on the base listing is the latitude of the merged
\* listing, and so is a longitude that is set on the base listing.
C24_SetCoordinatesKept ==
    pc = "deduped" =>
        \A k \in 1..Len(merged_from) :
            /\ ~IsNone(Base(k).latitude) => unique_listings[k].latitude = Base(k).latitude
            /\ ~IsNone(Base(k).longitude) => unique_listings[k].longitude = Base(k).longitude

\* the fields of a fetched listing that may be unset, without the stated
\* exceptions (source_urls, price_history, estimates, coordinates)
OptionalFields == <<"bedrooms", "bathrooms", "days_on_market">> \o PreferNonNoneFields

\* the value of field f of the first member of group k that has it
RECURSIVE FirstSet(_, _, _)
FirstSet(k, f, m) ==
    IF m > Len(merged_from[k]) THEN None
    ELSE IF ~IsNone(raw_listings[merged_from[k][m]][f]) THEN raw_listings[merged_from[k][m]][f]
    ELSE FirstSet(k, f, m + 1)

\* C25: in a merged group the first member is the base, and every field of
\* the merged listing has the value of the first member that has it set; a
\* field that is set on the base keeps the base's value.
C25_UnsetFieldsFilledFromFirstMemberSet ==
    pc = "deduped" =>
        \A k \in 1..Len(merged_from) : \A n \in DOMAIN OptionalFields :
            unique_listings[k][OptionalFields[n]] = FirstSet(k, OptionalFields[n], 1)


---------------------------------------------------------------------------
(* the geo-matching pass: the size of its groups and the order of the      *)
(* input                                                                   *)

\* group k holds listings of more than one fingerprint: it is the work of
\* the geo-matching pass
GeoMatched(k) == \E i, j \in Members(k) : RawFp(i) # RawFp(j)

\* C26: first match wins in the geo-matching pass: a singleton that has
\* been matched is in no further comparison, so every geo-matched group
\* has exactly two members.
C26_GeoMatchedGroupsArePairs ==
    pc = "deduped" =>
        \A k \in 1..Len(merged_from) : GeoMatched(k) => Cardinality(Members(k)) = 2

\* the merge groups of process() on the listings in the order p, as sets of
\* positions of the list as it was given
GroupsInOrder(p) ==
    LET permuted == Eager([m \in DOMAIN raw_listings |-> raw_listings[p[m]]])
        groups   == ProcessGroups(permuted)
    IN  {{p[m] : m \in Range(groups[k])} : k \in DOMAIN groups}

\* C29: the grouping of process() does not depend on the order of its
\* input: on every permutation of the list it returns as many listings and
\* merges the same sets of listings together.
C29_GroupingIndependentOfOrder ==
    pc = "deduped" =>
        \A p \in Permutations(DOMAIN raw_listings) :
            GroupsInOrder(p) = {Members(k) : k \in DOMAIN merged_from}


---------------------------------------------------------------------------
(* Claims on the age filter: the configured cap and a median DOM of 0      *)

\* market_analyzer.py: the caps analyze_market recommends
RecommendedCaps == {RECOMMENDED_SETTINGS[c].max_dom_absolute : c \in DOMAIN RECOMMENDED_SETTINGS}

\* main.run lines 177-180: the configured caps under which the filter is
\* given the cap FilterC
ConfiguredCaps ==
    {configured \in FilterCaps :
        \E recommended \in RecommendedCaps : FilterC = Min(configured, recommended)}

\* C27: with the dynamic age filter enabled, no listing whose known DOM is
\* over the configured max_dom_absolute passes the filter, whatever the
\* report recommends and whatever the median DOM of the area, a configured
\* cap under 30 days included.
C27_NothingOverConfiguredCapPasses ==
    FilterReturned =>
        \A configured \in ConfiguredCaps :
            ~IsNone(FilterDom) /\ Val(FilterDom) > configured => ~FilterKept

\* C28: the default median DOM of 30 is used only for an area without a
\* known median DOM: the effective maximum is max(30, min(m*k, c)) with m
\* the median DOM of the area whenever it is known, so that with m = 0 the
\* effective maximum is 30 and a listing of DOM 31 is excluded.
C28_DefaultMedianOnlyWhenUnknown ==
    FilterReturned /\ ~IsNone(FilterDom) =>
        /\ FilterKept <=> 10 * Val(FilterDom) <= Max(300, Min(FilterM * FilterK10, 10 * FilterC))
        /\ FilterAreaMedian = Some(0) /\ FilterDom = Some(31) => ~FilterKept


---------------------------------------------------------------------------
(* web/app.py: the routes that write the search requests and the private   *)
(* routes behind an access token.  A row of search_requests has its email, *)
(* status, run_status and access_token; the id of a row is its position.   *)
(* The background threads are started and not scheduled here: a pipeline   *)
(* reads and writes neither status nor access_token.                       *)

\* the number of search requests made
MaxRequests == 2

\* the addresses subscribe accepts (EMAIL_PATTERN)
Emails == {"amy@example.com", "bob@example.com"}

\* the tokens a visitor tries: 0 is one that was never given out
Tokens == 0..MaxThreads

\* db.create_search_request(email, zip_codes, preferences)
create_search_request(rows, email) ==
    Append(rows, [email |-> email, status |-> "pending", run_status |-> None,
                  access_token |-> None])

\* db.get_request(request_id): the id of the row, None without one
get_request(rows, request_id) ==
    IF request_id \in DOMAIN rows THEN Some(request_id) ELSE None

\* secrets.token_hex(16): 128 random bits, taken here as a value that was
\* never drawn before (the tokens are numbered in the order they are drawn)
token_hex(rows) ==
    LET drawn == {0} \cup {Val(rows[id].access_token) :
                              id \in {i \in DOMAIN rows : ~IsNone(rows[i].access_token)}}
    IN  1 + CHOOSE last \in drawn : \A token \in drawn : token <= last

\* db.set_access_token(request_id), with the token it has drawn
set_access_token(rows, request_id, token) ==
    [rows EXCEPT ![request_id].access_token = Some(token)]

\* variant: the status of the row is not looked at
get_request_by_token_of_any_status(rows, token) ==
    LET found == {id \in DOMAIN rows : rows[id].access_token = Some(token)}
    IN  IF found = {} THEN None ELSE Some(CHOOSE id \in found : TRUE)

\* db.get_request_by_token(token): WHERE access_token = ? AND status =
\* 'approved'; access_token is UNIQUE
get_request_by_token(rows, token) ==
    LET found == {id \in DOMAIN rows : /\ rows[id].access_token = Some(token)
                                       /\ rows[id].status = "approved"}
    IN  IF found = {} THEN None ELSE Some(CHOOSE id \in found : TRUE)

\* an HTTP response: its status code, the token of the URL on a private
\* route, and the request whose dashboard, map or newsletter it carries
Response(code, token, request) == [code |-> code, token |-> token, request |-> request]

\* redirect(url_for(...))
Redirect == Response(302, None, None)

\* abort(404)
NotFound(token) == Response(404, token, None)

\* a thread as admin_approve and admin_rerun start it, with the
\* access_token its closure holds
StartedWith(request_id, token) ==
    [request_id |-> request_id, at |-> "started", raised |-> FALSE, access_token |-> token]

InitTokens ==
    /\ pc = "serving"
    /\ search_requests = <<>>
    /\ threads = <<>>
    /\ _pipeline_semaphore = 2
    /\ bulk_run = None
    /\ http_response = None
    /\ age_filter = None
    /\ scorer = None
    /\ sub_score = None
    /\ addresses = None
    /\ raw_listings = <<>>
    /\ InitRun
    /\ InitStore

\* what the routes leave alone
RoutesUnchanged ==
    UNCHANGED <<pc, dedupVars, marketVars, storeVars, runVars, callVars,
                _pipeline_semaphore, bulk_run>>

\* subscribe lines 75-144, with a valid form
subscribe(email) ==
    /\ Len(search_requests) < MaxRequests
    /\ search_requests' = create_search_request(search_requests, email)
    /\ http_response' = Some(Redirect)
    /\ UNCHANGED threads
    /\ RoutesUnchanged

RECURSIVE Unsubscribed(_, _, _)
\* the loop of unsubscribe over the approved subscribers
Unsubscribed(rows, approved, email) ==
    IF approved = <<>> THEN rows
    ELSE Unsubscribed(IF rows[Head(approved)].email = email
                      THEN update_request_status(rows, Head(approved), "rejected")
                      ELSE rows,
                      Tail(approved), email)

\* unsubscribe lines 148-167
unsubscribe(email) ==
    /\ search_requests' =
           Unsubscribed(search_requests,
                        SelectSeq(Indices(Len(search_requests)),
                                  LAMBDA id : search_requests[id].status = "approved"),
                        email)
    /\ http_response' = Some(Redirect)
    /\ UNCHANGED threads
    /\ RoutesUnchanged

\* user_dashboard lines 191-207
user_dashboard(token) ==
    /\ LET req == get_request_by_token(search_requests, token)
       IN  http_response' = Some(IF IsNone(req) THEN NotFound(Some(token))
                                 ELSE Response(200, Some(token), req))
    /\ UNCHANGED <<search_requests, threads>>
    /\ RoutesUnchanged

\* user_map lines 210-226 and user_newsletter lines 229-245: the file is
\* sent, or it is not there yet
user_file(token) ==
    /\ LET req == get_request_by_token(search_requests, token)
       IN  \E code \in {200, 202} :
             http_response' = Some(IF IsNone(req) THEN NotFound(Some(token))
                                   ELSE Response(code, Some(token), req))
    /\ UNCHANGED <<search_requests, threads>>
    /\ RoutesUnchanged

\* admin_approve lines 272-320
admin_approve(request_id) ==
    /\ IF IsNone(get_request(search_requests, request_id))
       THEN /\ http_response' = Some(NotFound(None))
            /\ UNCHANGED <<search_requests, threads>>
       ELSE /\ Len(threads) < MaxThreads
            /\ LET access_token == token_hex(search_requests)
               IN  /\ search_requests' =
                          update_user_run_status(
                              set_access_token(
                                  update_request_status(search_requests, request_id, "approved"),
                                  request_id, access_token),
                              request_id, "running")
                   /\ threads' = Append(threads, StartedWith(request_id, Some(access_token)))
            /\ http_response' = Some(Redirect)
    /\ RoutesUnchanged

\* admin_reject lines 323-337
admin_reject(request_id) ==
    /\ IF IsNone(get_request(search_requests, request_id))
       THEN /\ http_response' = Some(NotFound(None))
            /\ UNCHANGED search_requests
       ELSE /\ search_requests' = update_request_status(search_requests, request_id, "rejected")
            /\ http_response' = Some(Redirect)
    /\ UNCHANGED threads
    /\ RoutesUnchanged

\* admin_rerun lines 353-387
admin_rerun(request_id) ==
    /\ IF \/ IsNone(get_request(search_requests, request_id))
          \/ search_requests[request_id].status # "approved"
       THEN /\ http_response' = Some(NotFound(None))
            /\ UNCHANGED <<search_requests, threads>>
       ELSE /\ Len(threads) < MaxThreads
            /\ search_requests' = update_user_run_status(search_requests, request_id, "running")
            /\ threads' = Append(threads, StartedWith(request_id,
                                                      search_requests[request_id].access_token))
            /\ http_response' = Some(Redirect)
    /\ RoutesUnchanged

NextTokens ==
    \/ \E email \in Emails : subscribe(email)
    \/ \E email \in Emails : unsubscribe(email)
    \/ \E token \in Tokens : user_dashboard(token)
    \/ \E token \in Tokens : user_file(token)
    \/ \E request_id \in 1..MaxRequests : admin_approve(request_id)
    \/ \E request_id \in 1..MaxRequests : admin_reject(request_id)
    \/ \E request_id \in 1..MaxRequests : admin_rerun(request_id)

SpecTokens == InitTokens /\ [][NextTokens]_vars

---------------------------------------------------------------------------
(* Claim on the access tokens                                              *)

\* the token was given to the request: it is in the closure of a thread
\* that admin_approve or admin_rerun started for it
Issued(token, request_id) ==
    \E t \in DOMAIN threads : /\ threads[t].request_id = request_id
                              /\ threads[t].access_token = Some(token)

\* the request is approved and the token is the one stored for it
Current(token, request_id) ==
    /\ request_id \in DOMAIN search_requests
    /\ search_requests[request_id].status = "approved"
    /\ search_requests[request_id].access_token = Some(token)

\* the last answer, one of a private route to a token, is right for the rows
AnswerFollowsRows ==
    LET answer == Val(http_response)
        token  == Val(answer.token)
    IN  /\ answer.code # 404 <=> \E request_id \in DOMAIN search_requests :
                                     Current(token, request_id)
        /\ answer.code # 404 => Current(token, Val(answer.request))
        /\ \A request_id \in DOMAIN search_requests :
               Issued(token, request_id) /\ ~Current(token, request_id) => answer.code = 404

\* C30: after any sequence of subscribe, approve, reject, unsubscribe and
\* rerun, a private route answers a token with the dashboard, map or
\* newsletter of a request only while that request is approved and the
\* token is the one stored for it: a token given to a request that has been
\* rejected or unsubscribed since, or that a later approve has replaced, is
\* answered with 404.
C30_TokenWorksOnlyWhileApprovedAndCurrent ==
    [][(/\ http_response' # http_response
        /\ ~IsNone(http_response')
        /\ ~IsNone(Val(http_response').token)) => AnswerFollowsRows']_vars

\* the first token of a request is refused after a second approve has
\* replaced it
C30_Witness ==
    /\ ~IsNone(http_response)
    /\ Val(http_response).code = 404
    /\ \E request_id \in DOMAIN search_requests, token \in Tokens :
         /\ Val(http_response).token = Some(token)
         /\ Issued(token, request_id)
         /\ search_requests[request_id].status = "approved"
         /\ search_requests[request_id].access_token # Some(token)

==========================================================================
